---------------------------- MODULE Spec2Model ----------------------------
(***************************************************************************)
(* Model of the BeyondTyping voice assistant:                              *)
(*   - BeyondTypingMVP (src/main.py): the listen / classify / route /      *)
(*     static-match command loop and its action handlers;                  *)
(*   - CommandProcessor (src/core/command_processor.py): the ordered       *)
(*     regular-expression command table.                                   *)
(* Text is modelled by TLA+ strings, character by character: Len, SubSeq   *)
(* and \o are the only primitives used, every Python string method the     *)
(* code calls is defined from them.                                        *)
(***************************************************************************)
EXTENDS Integers, Sequences, FiniteSets, TLC

(***************************************************************************)
(* Bounds of the model.                                                    *)
(***************************************************************************)
\* longest folder_history the model lets _change_directory build
MaxHistory == 1

\* most entries the calls of FileOperations add to the file system
MaxCreated == 1

(***************************************************************************)
(* Python string methods.                                                  *)
(***************************************************************************)
SetMin(S) == CHOOSE i \in S : \A j \in S : i <= j

IsSpace(c) == c \in {" ", "\t", "\n"}

\* s[i:] in Python, 1-based
StrFrom(s, i) == SubSeq(s, i, Len(s))

\* s.find(p, from - 1) + 1: the first position >= from where p starts; 0 when absent
StrFind(s, p, from) ==
    LET last == Len(s) - Len(p) + 1
        n    == Len(p) - 1
    IN  IF \A i \in from..last : SubSeq(s, i, i + n) # p THEN 0
        ELSE CHOOSE i \in from..last :
                 SubSeq(s, i, i + n) = p /\ \A j \in from..(i - 1) : SubSeq(s, j, j + n) # p

\* s.rfind(p) + 1: the last position where p starts; 0 when absent
StrRFind(s, p) ==
    LET last == Len(s) - Len(p) + 1
        n    == Len(p) - 1
    IN  IF \A i \in 1..last : SubSeq(s, i, i + n) # p THEN 0
        ELSE CHOOSE i \in 1..last :
                 SubSeq(s, i, i + n) = p /\ \A j \in (i + 1)..last : SubSeq(s, j, j + n) # p

\* p in s
StrContains(s, p) == \E i \in 1..(Len(s) - Len(p) + 1) : SubSeq(s, i, i + Len(p) - 1) = p

StartsWith(s, p) == Len(p) <= Len(s) /\ SubSeq(s, 1, Len(p)) = p

EndsWith(s, p) == Len(p) <= Len(s) /\ SubSeq(s, Len(s) - Len(p) + 1, Len(s)) = p

\* s.replace(p, r): every non-overlapping occurrence, left to right (p non-empty)
RECURSIVE StrReplace(_, _, _)
StrReplace(s, p, r) ==
    LET Replaced(i) ==
            LET Continued(rest) ==
                    IF rest = "" THEN SubSeq(s, 1, i - 1) \o r
                    ELSE SubSeq(s, 1, i - 1) \o r \o StrReplace(rest, p, r)
            IN  IF i = 0 THEN s ELSE Continued(StrFrom(s, i + Len(p)))
    IN  Replaced(StrFind(s, p, 1))

\* s.strip()
StrStrip(s) ==
    LET Blank(i) == IsSpace(SubSeq(s, i, i))
    IN  IF \A i \in 1..Len(s) : Blank(i) THEN ""
        ELSE SubSeq(s, CHOOSE i \in 1..Len(s) : ~Blank(i) /\ \A j \in 1..(i - 1) : Blank(j),
                       CHOOSE i \in 1..Len(s) : ~Blank(i) /\ \A j \in (i + 1)..Len(s) : Blank(j))

\* s.strip(c) for a one-character c
RECURSIVE StrStripChar(_, _)
StrStripChar(s, c) ==
    IF Len(s) > 0 /\ SubSeq(s, 1, 1) = c THEN StrStripChar(StrFrom(s, 2), c)
    ELSE IF Len(s) > 0 /\ SubSeq(s, Len(s), Len(s)) = c
    THEN StrStripChar(SubSeq(s, 1, Len(s) - 1), c)
    ELSE s

\* ' '.join(s.split()): runs of whitespace become one space, none at the ends
RECURSIVE JoinSplit(_)
JoinSplit(s) ==
    LET Joined(t) ==
            LET Cut(sp) == IF sp = {} THEN t
                           ELSE SubSeq(t, 1, SetMin(sp) - 1) \o " "
                                \o JoinSplit(StrFrom(t, SetMin(sp) + 1))
            IN  Cut({i \in 1..Len(t) : IsSpace(SubSeq(t, i, i))})
    IN  Joined(StrStrip(s))

\* the lower-case letter of every upper-case letter
Lowered ==
    [ c \in { "A","B","C","D","E","F","G","H","I","J","K","L","M",
              "N","O","P","Q","R","S","T","U","V","W","X","Y","Z" } |->
        CASE c = "A" -> "a" [] c = "B" -> "b" [] c = "C" -> "c" [] c = "D" -> "d"
          [] c = "E" -> "e" [] c = "F" -> "f" [] c = "G" -> "g" [] c = "H" -> "h"
          [] c = "I" -> "i" [] c = "J" -> "j" [] c = "K" -> "k" [] c = "L" -> "l"
          [] c = "M" -> "m" [] c = "N" -> "n" [] c = "O" -> "o" [] c = "P" -> "p"
          [] c = "Q" -> "q" [] c = "R" -> "r" [] c = "S" -> "s" [] c = "T" -> "t"
          [] c = "U" -> "u" [] c = "V" -> "v" [] c = "W" -> "w" [] c = "X" -> "x"
          [] c = "Y" -> "y" [] c = "Z" -> "z" ]

\* s.lower(): character by character (the string is halved to keep the
\* recursion shallow; a string without capitals is its own lower case)
RECURSIVE StrLower(_)
StrLower(s) ==
    IF \A i \in 1..Len(s) : SubSeq(s, i, i) \notin DOMAIN Lowered THEN s
    ELSE IF Len(s) = 1 THEN Lowered[s]
    ELSE StrLower(SubSeq(s, 1, Len(s) \div 2)) \o StrLower(StrFrom(s, Len(s) \div 2 + 1))

\* any(keyword in command_lower for keyword in keywords)
has_any_keyword(command_lower, keywords) ==
    \E k \in 1..Len(keywords) : StrContains(command_lower, keywords[k])


(***************************************************************************)
(* The environment: the file system, the events a command cycle produces   *)
(* and the outcomes of one handler invocation's collaborator calls.        *)
(***************************************************************************)
\* value of listen() on timeout or unintelligible audio
None == "<None>"

\* text of an exception, as interpolated into a spoken failure message
Err == "<error>"

\* os.path.expanduser("~"), str(Path.home())
Home == "/home/user"

\* os.path.join(a, b), Path / name
PathJoin(a, b) == a \o "/" \o b

\* os.path.basename(p), Path.name
Basename(p) ==
    LET i == StrRFind(p, "/") IN IF i = 0 THEN p ELSE StrFrom(p, i + 1)

\* A directory entry; the file system is the sequence of its entries, in
\* the order os.listdir and os.walk report them.
Entry(d, n, isd) == [dir |-> d, name |-> n, isdir |-> isd]

EntryPath(en) == PathJoin(en.dir, en.name)

InitialFs ==
    << Entry("", "home", TRUE),
       Entry("/home", "user", TRUE),
       Entry(Home, "Desktop", TRUE),
       Entry(Home, "Documents", TRUE),
       Entry(Home, "Downloads", TRUE),
       Entry(Home, "map.png", FALSE),
       Entry(PathJoin(Home, "Downloads"), "music videos", TRUE),
       Entry(PathJoin(Home, "Desktop"), "todo.txt", FALSE),
       Entry(PathJoin(Home, "Documents"), "notes.txt", FALSE),
       Entry(PathJoin(Home, "Documents"), "work", TRUE),
       Entry(PathJoin(PathJoin(Home, "Documents"), "work"), "info.txt", FALSE) >>

\* os.path.isdir(p)
IsDir(fs, p) == p \in { "/", Home } \/ \E i \in 1..Len(fs) : fs[i].isdir /\ EntryPath(fs[i]) = p

\* os.path.isfile(p)
IsFile(fs, p) == \E i \in 1..Len(fs) : ~fs[i].isdir /\ EntryPath(fs[i]) = p

\* os.path.exists(p), Path.exists()
Exists(fs, p) == IsDir(fs, p) \/ IsFile(fs, p)

\* the entries of os.listdir(d), in listing order
ListDir(fs, d) == SelectSeq(fs, LAMBDA en : en.dir = d)

\* the entries os.walk(top) visits, top-down, which are directories
\* (isd = TRUE) or files (isd = FALSE), in visiting order
RECURSIVE WalkFrom(_, _, _, _)
RECURSIVE WalkSubdirs(_, _, _, _)
WalkFrom(fs, top, isd, depth) ==
    LET here == SelectSeq(ListDir(fs, top), LAMBDA en : en.isdir = isd)
        subs == SelectSeq(ListDir(fs, top), LAMBDA en : en.isdir)
    IN  IF depth = 0 THEN here ELSE here \o WalkSubdirs(fs, subs, isd, depth - 1)
WalkSubdirs(fs, subs, isd, depth) ==
    IF subs = << >> THEN << >>
    ELSE WalkFrom(fs, EntryPath(Head(subs)), isd, depth) \o WalkSubdirs(fs, Tail(subs), isd, depth)

\* open(p, 'w'): creates the file when it does not exist yet
CreateEntry(fs, d, n) == IF Exists(fs, PathJoin(d, n)) THEN fs ELSE Append(fs, Entry(d, n, FALSE))

\* _count_items(folder_path): (file_count, folder_count)
count_items(fs, folder_path) ==
    IF ~IsDir(fs, folder_path) THEN <<0, 0>>
    ELSE << Len(SelectSeq(ListDir(fs, folder_path), LAMBDA en : ~en.isdir)),
            Len(SelectSeq(ListDir(fs, folder_path), LAMBDA en : en.isdir)) >>

\* Events of a command cycle.
Speak(t)        == [k |-> "speak",  h |-> "speak",  a |-> t, exc |-> FALSE]
Heard(t)        == [k |-> "listen", h |-> "listen", a |-> t, exc |-> FALSE]
Call(h, t)      == [k |-> "call",   h |-> h,        a |-> t, exc |-> FALSE]
Act(h, t, exc)  == [k |-> "act",    h |-> h,        a |-> t, exc |-> exc]
Predict(t, exc) == [k |-> "predict", h |-> "_get_intent_from_ml", a |-> t, exc |-> exc]
Static(t)       == [k |-> "call",   h |-> "_process_command_static", a |-> t, exc |-> FALSE]

\* What one handler invocation meets: F holds the numbers (in calling
\* order) of its collaborator calls that raise, answer is what a follow-up
\* listen() returns (None when the handler never listens).
Raises(e, n) == n \in e.F

\* truthiness of an Optional[str]
Truthy(t) == t # None /\ t # ""

\* Result of a handler: the value returned (or raised = TRUE when an
\* exception leaves it), the events it produced and the assistant's state.
Ret(ok, ev, st) == [ok |-> ok, raised |-> FALSE, ev |-> ev, st |-> st]

\* a handler that calls one collaborator: try: call; speak(done); return True
\* except: speak(failed); return False
Simple(h, coll, arg, done, failed, st, e) ==
    IF Raises(e, 1)
    THEN Ret(FALSE, <<Call(h, ""), Act(coll, arg, TRUE), Speak(failed \o Err)>>, st)
    ELSE Ret(TRUE,  <<Call(h, ""), Act(coll, arg, FALSE), Speak(done)>>, st)

\* a browser handler: webbrowser.get().open(url, new=0), on failure
\* webbrowser.open(url), on failure the spoken error and False
OpenUrl(h, url, done, failed, st, e) ==
    IF ~Raises(e, 1)
    THEN Ret(TRUE, <<Call(h, ""), Act("browser.open", url, FALSE), Speak(done)>>, st)
    ELSE IF ~Raises(e, 2)
    THEN Ret(TRUE, <<Call(h, ""), Act("browser.open", url, TRUE),
                     Act("webbrowser.open", url, FALSE), Speak(done)>>, st)
    ELSE Ret(FALSE, <<Call(h, ""), Act("browser.open", url, TRUE),
                      Act("webbrowser.open", url, TRUE), Speak(failed \o Err)>>, st)

open_youtube(st, e) ==
    OpenUrl("_open_youtube", "https://www.youtube.com", "Opening YouTube",
            "Failed to open YouTube: ", st, e)

open_browser(st, e) ==
    OpenUrl("_open_browser", "https://google.com", "Opening browser",
            "Failed to open browser: ", st, e)

play_video(st, e) ==
    Simple("_play_video", "pyautogui.press", "space", "Video is now playing",
           "Failed to play video: ", st, e)

pause_video(st, e) ==
    Simple("_pause_video", "pyautogui.press", "space", "Video paused",
           "Failed to pause video: ", st, e)

next_video(st, e) ==
    Simple("_next_video", "pyautogui.hotkey", "shift+n", "Next video",
           "Failed to go to next video: ", st, e)

previous_video(st, e) ==
    Simple("_previous_video", "pyautogui.hotkey", "shift+p", "Previous video",
           "Failed to go to previous video: ", st, e)

next_tab(st, e) ==
    Simple("_next_tab", "pyautogui.hotkey", "ctrl+tab", "Next tab",
           "Failed to switch tabs: ", st, e)

previous_tab(st, e) ==
    Simple("_previous_tab", "pyautogui.hotkey", "ctrl+shift+tab", "Previous tab",
           "Failed to switch tabs: ", st, e)

open_whatsapp(st, e) ==
    Simple("_open_whatsapp", "webbrowser.open", "https://web.whatsapp.com",
           "Opening WhatsApp Web for file download", "Failed to open WhatsApp Web: ", st, e)

open_editor(st, e) ==
    Simple("_open_editor", "os.system", "notepad",
           "Notepad opened. You can now write text, delete text, or save the file.",
           "Failed to open editor: ", st, e)

\* strftime("%I:%M %p") of the wall clock, which the model does not track
get_time(st, e) ==
    IF Raises(e, 1)
    THEN Ret(FALSE, <<Call("_get_time", ""), Speak("Failed to get time: " \o Err)>>, st)
    ELSE Ret(TRUE,  <<Call("_get_time", ""), Speak("The current time is " \o "<time>")>>, st)

show_help(st, e) ==
    Ret(TRUE, <<Call("_show_help", ""),
                Speak("Here are the main commands you can use:"),
                Speak("Browser: Open YouTube, Open browser, Search YouTube for something, Search Google"),
                Speak("Files: Open file explorer, Go to downloads or documents, Open file name, List files"),
                Speak("Documents: Open notepad, Create file, Write in file, Save file"),
                Speak("Video: Play video, Pause video, Next video, Previous video"),
                Speak("Utilities: What time is it, Next tab, Previous tab, Help, Stop")>>, st)

close_file(st, e) ==
    IF Raises(e, 1)
    THEN Ret(FALSE, <<Call("_close_file", ""), Act("pyautogui.hotkey", "alt+f4", TRUE),
                      Speak("Failed to close file: " \o Err)>>, st)
    ELSE Ret(TRUE, <<Call("_close_file", ""), Act("pyautogui.hotkey", "alt+f4", FALSE),
                     Speak("File closed")>>, [st EXCEPT !.file_explorer_open = FALSE])

\* a method _route_by_intent calls that BeyondTypingMVP does not define:
\* the attribute lookup raises AttributeError before anything is invoked
UndefinedAccepted(h, st) == Ret(TRUE, << >>, st)

Undefined(h, st) == [ok |-> FALSE, raised |-> TRUE, ev |-> << >>, st |-> st]


(***************************************************************************)
(* Slot extraction and the handlers that take a slot from the utterance.   *)
(***************************************************************************)
\* command.replace(phrase, '').strip(): what remains of the command once
\* the phrase that names the action is removed
\* the residual, one character short
ResidualTail(command, phrase) == StrFrom(StrStrip(StrReplace(command, phrase, "")), 2)

Residual(command, phrase) == StrStrip(StrReplace(command, phrase, ""))

\* for phrase in phrases[k:]: term = term.replace(phrase, '').strip()
\* (an empty term stays empty, whatever is removed from it)
RECURSIVE ReplaceStripFrom(_, _, _)
ReplaceStripFrom(term, phrases, k) ==
    LET Continue(next) == IF next = "" THEN "" ELSE ReplaceStripFrom(next, phrases, k + 1)
    IN  IF k > Len(phrases) \/ term = "" THEN term
        ELSE Continue(Residual(term, phrases[k]))

\* for phrase in phrases[k:]: text = text.replace(phrase, '')
RECURSIVE ReplaceFrom(_, _, _)
ReplaceFrom(text, phrases, k) ==
    LET Continue(next) == IF next = "" THEN "" ELSE ReplaceFrom(next, phrases, k + 1)
    IN  IF k > Len(phrases) \/ text = "" THEN text
        ELSE Continue(StrReplace(text, phrases[k], ""))

\* the search term _search_youtube extracts from the command
youtube_search_term(command) ==
    LET remove_phrases ==
            << "search youtube", "search for", "youtube search", "find on youtube",
               "youtube find", "play on youtube", "play", "find", "show me",
               "look for", "youtube", "search" >>
    IN  JoinSplit(ReplaceStripFrom(StrStrip(StrLower(command)), remove_phrases, 1))

\* a slot the handler treats as missing: empty or shorter than 2 characters
TooShort(t) == t = "" \/ Len(t) < 2

search_youtube(command, st, e) ==
    LET Searched(term0) ==
            LET h     == <<Call("_search_youtube", command)>>
                ask   == TooShort(term0)
                pre   == IF ask
                         THEN h \o <<Speak("What would you like me to search for on YouTube?"),
                                     Heard(e.answer)>>
                         ELSE h
                term  == IF ask THEN e.answer ELSE term0
                \* number of the first browser call: 2 after a failed pywhatkit call
                b     == IF st.PYWHATKIT_AVAILABLE THEN 2 ELSE 1
                kit   == IF st.PYWHATKIT_AVAILABLE
                         THEN <<Act("pywhatkit.playonyt", term, Raises(e, 1))>> ELSE << >>
                Opened(url) ==
                    IF ~Raises(e, b)
                    THEN Ret(TRUE, pre \o kit \o <<Act("browser.open", url, FALSE),
                                                   Speak("Searching YouTube for " \o term)>>, st)
                    ELSE IF ~Raises(e, b + 1)
                    THEN Ret(TRUE, pre \o kit \o <<Act("browser.open", url, TRUE),
                                                   Act("webbrowser.open", url, FALSE),
                                                   Speak("Searching YouTube for " \o term)>>, st)
                    ELSE Ret(FALSE, pre \o kit \o <<Act("browser.open", url, TRUE),
                                                    Act("webbrowser.open", url, TRUE),
                                                    Speak("Failed to search YouTube: " \o Err)>>, st)
            IN  IF ask /\ ~Truthy(e.answer) THEN Ret(FALSE, pre, st)
                ELSE IF st.PYWHATKIT_AVAILABLE /\ ~Raises(e, 1)
                THEN Ret(TRUE, pre \o kit \o <<Speak("Playing " \o term \o " on YouTube")>>, st)
                ELSE Opened("https://www.youtube.com/results?search_query="
                            \o StrReplace(term, " ", "+"))
    IN  Searched(youtube_search_term(command))

open_website(command, st, e) ==
    LET Opened(site) ==
            LET h   == <<Call("_open_website", command)>>
                url == IF StartsWith(site, "http://") \/ StartsWith(site, "https://")
                       THEN site ELSE "https://" \o site \o ".com"
            IN  IF site = ""
                THEN Ret(FALSE, h \o <<Speak("Which website would you like to open?")>>, st)
                ELSE IF Raises(e, 1)
                THEN Ret(FALSE, h \o <<Act("webbrowser.open", url, TRUE),
                                       Speak("Failed to open website: " \o Err)>>, st)
                ELSE Ret(TRUE, h \o <<Act("webbrowser.open", url, FALSE),
                                      Speak("Opening " \o url)>>, st)
    IN  Opened(Residual(command, "open website"))

search_google(command, st, e) ==
    LET Searched(term) ==
            LET h == <<Call("_search_google", command)>>
                Opened(url) ==
                    IF Raises(e, 1)
                    THEN Ret(FALSE, h \o <<Act("webbrowser.open", url, TRUE),
                                           Speak("Failed to search Google: " \o Err)>>, st)
                    ELSE Ret(TRUE, h \o <<Act("webbrowser.open", url, FALSE),
                                          Speak("Searching Google for " \o term)>>, st)
            IN  IF term = ""
                THEN Ret(FALSE, h \o <<Speak("What would you like to search for?")>>, st)
                ELSE Opened("https://www.google.com/search?q=" \o StrReplace(term, " ", "+"))
    IN  Searched(Residual(command, "search google"))

open_file_explorer_navigate(st, e) ==
    LET h == <<Call("_open_file_explorer_navigate", "")>>
    IN  IF st.file_explorer_open
        THEN Ret(TRUE, h \o <<Speak("File Explorer is already open. Say 'go to downloads', 'go to documents', or 'go to desktop' to navigate.")>>, st)
        ELSE IF Raises(e, 1)
        THEN Ret(FALSE, h \o <<Act("subprocess.Popen", "explorer", TRUE),
                               Speak("Failed to open File Explorer: " \o Err)>>, st)
        ELSE Ret(TRUE, h \o <<Act("subprocess.Popen", "explorer", FALSE),
                              Speak("File Explorer opened. Say 'go to downloads', 'go to documents', or 'go to desktop' to navigate.")>>,
                 [st EXCEPT !.file_explorer_open = TRUE])

\* os.startfile(p) raises when p does not exist, or when the shell fails
StartfileRaises(fs, p, e, n) == ~Exists(fs, p) \/ Raises(e, n)

\* _change_directory(folder_path), entered with the events ev already produced
change_directory(folder_path, ev, st, e) ==
    LET st1 == [st EXCEPT !.folder_history = Append(@, st.current_path),
                          !.current_path = folder_path,
                          !.current_folder = folder_path]
        Announcement(name, files, dirs) ==
            "Navigated to " \o name \o ". "
            \o (IF files > 0
                THEN "Found " \o ToString(files) \o " file" \o (IF files > 1 THEN "s" ELSE "")
                ELSE "")
            \o (IF dirs > 0
                THEN (IF files > 0 THEN " and " ELSE "") \o ToString(dirs) \o " folder"
                     \o (IF dirs > 1 THEN "s" ELSE "")
                ELSE "")
    IN  IF ~Exists(st.fs, folder_path)
        THEN Ret(FALSE, ev \o <<Speak("Folder not found: " \o Basename(folder_path))>>, st)
        ELSE IF Raises(e, 1)
        THEN Ret(FALSE, ev \o <<Act("os.startfile", folder_path, TRUE),
                                Speak("Failed to change directory: " \o Err)>>, st1)
        ELSE Ret(TRUE, ev \o <<Act("os.startfile", folder_path, FALSE),
                               Speak(Announcement(Basename(folder_path),
                                                  count_items(st.fs, folder_path)[1],
                                                  count_items(st.fs, folder_path)[2]))>>, st1)

\* the entries of a sequence of entries whose lower-cased name contains t
Matching(entries, t) == SelectSeq(entries, LAMBDA en : StrContains(StrLower(en.name), StrLower(t)))

\* the entries the os.walk of each location visits, location after location
RECURSIVE WalkAll(_, _, _)
WalkAll(fs, locations, isd) ==
    IF locations = << >> THEN << >>
    ELSE (IF IsDir(fs, Head(locations)) THEN WalkFrom(fs, Head(locations), isd, Len(fs))
          ELSE << >>)
         \o WalkAll(fs, Tail(locations), isd)

\* _find_and_navigate_to_folder(folder_name), entered with the events ev
find_and_navigate_to_folder(folder_name, ev, st, e) ==
    LET Found(matches) ==
            IF matches # << >> THEN change_directory(EntryPath(Head(matches)), ev, st, e)
            ELSE Ret(FALSE, ev \o <<Speak("Folder '" \o folder_name
                                          \o "' not found. Say 'list files' to see available folders.")>>, st)
    IN  Found((IF IsDir(st.fs, st.current_folder)
               THEN Matching(SelectSeq(ListDir(st.fs, st.current_folder), LAMBDA en : en.isdir),
                             folder_name)
               ELSE << >>)
              \o Matching(WalkAll(st.fs, << Home, PathJoin(Home, "Documents"),
                                            PathJoin(Home, "Desktop") >>, TRUE),
                          folder_name))

\* the folder name _navigate_to_folder extracts from the command
\* the folder name, with the phrases removed and no trimming
folder_slot_untrimmed(command) ==
    ReplaceFrom(StrLower(command),
                << "go to", "navigate to", "take me to", "open", "show me", "switch to" >>, 1)

folder_slot(command) ==
    ReplaceStripFrom(StrStrip(StrLower(command)),
                     << "go to", "navigate to", "take me to", "open", "show me", "switch to" >>, 1)

\* the folders mapping of _navigate_to_folder: alias -> directory under home
folders ==
    << <<"desktop", "Desktop">>, <<"documents", "Documents">>, <<"downloads", "Downloads">>,
       <<"pictures", "Pictures">>, <<"pics", "Pictures">>, <<"photos", "Pictures">>,
       <<"music", "Music">>, <<"videos", "Videos">>, <<"doc", "Documents">>,
       <<"download", "Downloads">> >>

\* lookup in a list of (key, value) pairs; "" when the key is absent
Lookup(map, key) ==
    LET hit == {i \in 1..Len(map) : map[i][1] = key}
    IN  IF hit = {} THEN "" ELSE map[SetMin(hit)][2]

navigate_to_folder(command, st, e) ==
    LET h == <<Call("_navigate_to_folder", command)>>
        Navigated(name, target) ==
            LET st1    == [st EXCEPT !.current_path = target, !.current_folder = target]
                st2    == [st1 EXCEPT !.file_explorer_open = TRUE]
                failed == Speak("Failed to navigate to folder: " \o Err)
                Announced(said) ==
                    IF st.file_explorer_open
                    THEN IF ~Raises(e, 1)
                         THEN Ret(TRUE, h \o <<Act("pyautogui.write", target, FALSE), said>>, st1)
                         ELSE IF ~StartfileRaises(st.fs, target, e, 2)
                         THEN Ret(TRUE, h \o <<Act("pyautogui.write", target, TRUE),
                                               Act("os.startfile", target, FALSE), said>>, st1)
                         ELSE Ret(FALSE, h \o <<Act("pyautogui.write", target, TRUE),
                                                Act("os.startfile", target, TRUE), failed>>, st1)
                    ELSE IF ~StartfileRaises(st.fs, target, e, 1)
                    THEN Ret(TRUE, h \o <<Act("os.startfile", target, FALSE), said>>, st2)
                    ELSE Ret(FALSE, h \o <<Act("os.startfile", target, TRUE), failed>>, st1)
                Counted(cnt) ==
                    Announced(Speak(IF IsDir(st.fs, target) /\ (cnt[1] > 0 \/ cnt[2] > 0)
                                    THEN "Navigated to " \o name \o " folder. Found "
                                         \o ToString(cnt[1]) \o " files and "
                                         \o ToString(cnt[2]) \o " folders"
                                    ELSE "Navigated to " \o name \o " folder"))
            IN  Counted(count_items(st.fs, target))
        Mapped(name, sub) ==
            IF name = ""
            THEN Ret(FALSE, h \o <<Speak("Which folder would you like to go to?")>>, st)
            ELSE IF sub = "" THEN find_and_navigate_to_folder(name, h, st, e)
            ELSE Navigated(name, PathJoin(Home, sub))
        Named(name) == Mapped(name, Lookup(folders, name))
    IN  Named(folder_slot(command))

\* sep.join(names of entries)
RECURSIVE JoinNames(_, _)
JoinNames(entries, sep) ==
    IF entries = << >> THEN ""
    ELSE IF Len(entries) = 1 THEN entries[1].name
    ELSE entries[1].name \o sep \o JoinNames(Tail(entries), sep)

\* item.lower().endswith(image_extensions)
IsPicture(n) ==
    LET image_extensions == << ".jpg", ".jpeg", ".png", ".gif", ".bmp", ".webp" >>
        Ends(lower) == \E i \in 1..Len(image_extensions) : EndsWith(lower, image_extensions[i])
    IN  Ends(StrLower(n))

\* The folders list is built by the body of the loop; the else clause that
\* fills the files list belongs to the for statement, so it runs once, after
\* the loop, on the last item.
list_files_in_folder(st, e) ==
    LET h == <<Call("_list_files_in_folder", "")>>
        \* "<n> <noun>[s]: a, b, c[ and <k> more]"
        Listed(entries, noun) ==
            ToString(Len(entries)) \o " " \o noun \o (IF Len(entries) > 1 THEN "s" ELSE "")
            \o ": "
            \o (IF Len(entries) <= 5 THEN JoinNames(entries, ", ")
                ELSE JoinNames(SubSeq(entries, 1, 5), ", ") \o " and "
                     \o ToString(Len(entries) - 5) \o " more")
        Announced(folders_list, files, pictures) ==
            "In " \o Basename(st.current_folder) \o ": "
            \o (IF folders_list # << >> THEN Listed(folders_list, "folder") \o ". " ELSE "")
            \o Listed(files, "file")
            \o (IF pictures # << >>
                THEN ". " \o ToString(Len(pictures)) \o " picture"
                     \o (IF Len(pictures) > 1 THEN "s" ELSE "") \o " found"
                ELSE "")
        Scanned(items) ==
            IF items = << >> THEN Ret(TRUE, h \o <<Speak("This folder is empty.")>>, st)
            ELSE Ret(TRUE, h \o <<Speak(Announced(
                         SelectSeq(items, LAMBDA en : en.isdir),
                         <<items[Len(items)]>>,
                         SelectSeq(<<items[Len(items)]>>, LAMBDA en : IsPicture(en.name))))>>, st)
    IN  IF ~IsDir(st.fs, st.current_folder)
        THEN Ret(FALSE, h \o <<Speak("Current location is not a valid folder.")>>, st)
        ELSE Scanned(ListDir(st.fs, st.current_folder))

\* the filename loop of _open_file_enhanced, from phrase number k on
\* (no round changes an empty filename)
RECURSIVE strip_phrases(_, _, _)
strip_phrases(filename, phrases, k) ==
    LET Continue(next) == IF next = "" THEN "" ELSE strip_phrases(next, phrases, k + 1)
        \* filename.replace(old, '', 1)
        ReplaceFirst(old, i) ==
            IF i = 0 THEN filename
            ELSE SubSeq(filename, 1, i - 1) \o StrFrom(filename, i + Len(old))
        \* filename.rsplit(sep, 1)[0]
        RsplitHead(i) == IF i = 0 THEN filename ELSE SubSeq(filename, 1, i - 1)
        Round(phrase) ==
            IF StartsWith(filename, phrase \o " ")
            THEN StrStrip(ReplaceFirst(phrase \o " ", StrFind(filename, phrase \o " ", 1)))
            ELSE IF StrContains(filename, " " \o phrase)
            THEN Residual(filename, " " \o phrase)
            ELSE IF EndsWith(filename, " " \o phrase)
            THEN StrStrip(RsplitHead(StrRFind(filename, " " \o phrase)))
            ELSE filename
    IN  IF k > Len(phrases) \/ filename = "" THEN filename
        ELSE Continue(Round(phrases[k]))

\* the file name _open_file_enhanced extracts from the command
file_name_slot(command) ==
    LET remove_phrases ==
            << "open file", "open document", "show file", "launch file",
               "open the file", "open", "file", "document" >>
    IN  StrStrip(strip_phrases(StrLower(command), remove_phrases, 1))

\* files met in the current folder, then by walking the locations
FileCandidates(st, locations, t) ==
    (IF IsDir(st.fs, st.current_folder)
     THEN Matching(SelectSeq(ListDir(st.fs, st.current_folder), LAMBDA en : ~en.isdir), t)
     ELSE << >>)
    \o Matching(WalkAll(st.fs, locations, FALSE), t)

open_file_enhanced(command, st, e) ==
    LET h == <<Call("_open_file_enhanced", command)>>
        Opened(name0) ==
            LET ask  == TooShort(name0)
                pre  == IF ask
                        THEN h \o <<Speak("Which file would you like to open?"), Heard(e.answer)>>
                        ELSE h
                Found(name, cands) ==
                    IF cands = << >>
                    THEN Ret(FALSE, pre \o <<Speak("File '" \o name
                                 \o "' not found. Say 'list files' to see available files.")>>, st)
                    ELSE IF Raises(e, 1)
                    THEN Ret(FALSE, pre \o <<Act("os.startfile", EntryPath(Head(cands)), TRUE),
                                             Speak("Failed to open file: " \o Err)>>, st)
                    ELSE Ret(TRUE, pre \o <<Act("os.startfile", EntryPath(Head(cands)), FALSE),
                                            Speak("Opened " \o Head(cands).name)>>, st)
                Named(name) ==
                    Found(name, FileCandidates(st, << PathJoin(Home, "Documents"),
                                                      PathJoin(Home, "Desktop"),
                                                      st.current_folder >>, name))
            IN  IF ask /\ ~Truthy(e.answer) THEN Ret(FALSE, pre, st)
                ELSE Named(IF ask THEN StrLower(e.answer) ELSE name0)
    IN  Opened(file_name_slot(command))

\* the picture name _open_picture extracts from the command
picture_slot(command) ==
    StrStrip(StrReplace(StrReplace(StrReplace(command, "open picture", ""),
                                   "open image", ""), "open photo", ""))

open_picture(command, st, e) ==
    LET h == <<Call("_open_picture", command)>>
        Found(name, cands) ==
            IF cands = << >>
            THEN Ret(FALSE, h \o <<Speak(IF name = ""
                                         THEN "No pictures found in current folder. Say 'go to pictures' to navigate to pictures folder."
                                         ELSE "Picture '" \o name \o "' not found.")>>, st)
            ELSE IF Raises(e, 1)
            THEN Ret(FALSE, h \o <<Act("os.startfile", EntryPath(Head(cands)), TRUE),
                                   Speak("Failed to open picture: " \o Err)>>, st)
            ELSE Ret(TRUE, h \o <<Act("os.startfile", EntryPath(Head(cands)), FALSE),
                                  Speak("Opened picture " \o Head(cands).name)>>, st)
        Named(name) ==
            Found(name,
                  IF name = ""
                  THEN IF IsDir(st.fs, st.current_folder)
                       THEN SelectSeq(ListDir(st.fs, st.current_folder),
                                      LAMBDA en : ~en.isdir /\ IsPicture(en.name))
                       ELSE << >>
                  ELSE SelectSeq(Matching(WalkAll(st.fs, << st.current_folder,
                                                             PathJoin(Home, "Pictures"),
                                                             PathJoin(Home, "Desktop"),
                                                             PathJoin(Home, "Downloads") >>,
                                                  FALSE), name),
                                 LAMBDA en : IsPicture(en.name)))
    IN  Named(picture_slot(command))

\* a go-back that moves current_path and leaves current_folder behind
go_back_path_only(st, e) ==
    IF st.folder_history = << >>
    THEN Ret(FALSE, <<Call("_go_back_folder", ""), Speak("No previous folder to go back to.")>>, st)
    ELSE Ret(TRUE, <<Call("_go_back_folder", ""),
                     Act("os.startfile", st.folder_history[Len(st.folder_history)], FALSE),
                     Speak("Went back to " \o Basename(st.folder_history[Len(st.folder_history)]))>>,
             [st EXCEPT !.folder_history = SubSeq(@, 1, Len(@) - 1),
                        !.current_path = st.folder_history[Len(st.folder_history)],
                        !.file_explorer_open = FALSE])

go_back_folder(st, e) ==
    LET h    == <<Call("_go_back_folder", "")>>
        n    == Len(st.folder_history)
        prev == st.folder_history[n]
        st1  == [st EXCEPT !.folder_history = SubSeq(@, 1, n - 1),
                           !.current_path = prev, !.current_folder = prev]
    IN  IF n = 0 THEN Ret(FALSE, h \o <<Speak("No previous folder to go back to.")>>, st)
        ELSE IF StartfileRaises(st.fs, prev, e, 1)
        THEN Ret(FALSE, h \o <<Act("os.startfile", prev, TRUE),
                               Speak("Failed to go back: " \o Err)>>, st1)
        ELSE Ret(TRUE, h \o <<Act("os.startfile", prev, FALSE),
                              Speak("Went back to " \o Basename(prev))>>,
                 [st1 EXCEPT !.file_explorer_open = FALSE])

announce_current_location(st, e) ==
    LET Announced(cnt) ==
            Ret(TRUE, <<Call("_announce_current_location", ""),
                        Speak("You are in " \o Basename(st.current_folder) \o " folder. "
                              \o "Path: " \o st.current_folder \o ". "
                              \o "There are " \o ToString(cnt[1]) \o " files and "
                              \o ToString(cnt[2]) \o " folders here.")>>, st)
    IN  Announced(count_items(st.fs, st.current_folder))

open_folder(command, st, e) ==
    LET h == <<Call("_open_folder", command)>>
        folder_map ==
            << <<"desktop", "Desktop">>, <<"documents", "Documents">>,
               <<"downloads", "Downloads">>, <<"pictures", "Pictures">> >>
        Mapped(name, sub) ==
            IF name = ""
            THEN Ret(FALSE, h \o <<Speak("Which folder would you like to open?")>>, st)
            ELSE IF sub = ""
            THEN Ret(FALSE, h \o <<Speak("Folder " \o name \o " not found")>>, st)
            ELSE IF StartfileRaises(st.fs, PathJoin(Home, sub), e, 1)
            THEN Ret(FALSE, h \o <<Act("os.startfile", PathJoin(Home, sub), TRUE),
                                   Speak("Failed to open folder: " \o Err)>>, st)
            ELSE Ret(TRUE, h \o <<Act("os.startfile", PathJoin(Home, sub), FALSE),
                                  Speak("Opened " \o name \o " folder")>>, st)
        Named(name) == Mapped(name, Lookup(folder_map, StrLower(name)))
    IN  Named(Residual(command, "open folder"))

\* the name of the file _create_file creates: the default name when the
\* command names none, with '.txt' appended unless it ends with it
create_file_name(command) ==
    LET Suffixed(name) == IF EndsWith(name, ".txt") THEN name ELSE name \o ".txt"
        Defaulted(slot) == Suffixed(IF slot = "" THEN "NewDocument.txt" ELSE slot)
    IN  Defaulted(Residual(command, "create file"))

create_file(command, st, e) ==
    LET h       == <<Call("_create_file", command)>>
        desktop == PathJoin(Home, "Desktop")
        failed  == Speak("Failed to create file: " \o Err)
        Created(name, path, st1) ==
            IF ~IsDir(st.fs, desktop) \/ Raises(e, 1)
            THEN Ret(FALSE, h \o <<Act("open", path, TRUE), failed>>, st)
            ELSE IF Raises(e, 2)
            THEN Ret(FALSE, h \o <<Act("open", path, FALSE),
                                   Act("os.startfile", path, TRUE), failed>>, st1)
            ELSE Ret(TRUE, h \o <<Act("open", path, FALSE), Act("os.startfile", path, FALSE),
                                  Speak("Created new file " \o name)>>, st1)
        Named(name) ==
            Created(name, PathJoin(desktop, name), [st EXCEPT !.fs = CreateEntry(@, desktop, name)])
    IN  Named(create_file_name(command))

\* the text _write_to_file extracts from the command
write_slot(command) ==
    StrStrip(ReplaceFrom(ReplaceFrom(StrLower(command),
                                     << "write", "type", "write the", "type the" >>, 1),
                         << "in file", "to file", "in document", "to document", "in the file",
                            "to the file", "in the document", "to the document" >>, 1))

write_to_file(command, st, e) ==
    LET h == <<Call("_write_to_file", command)>>
        Written(text) ==
            IF text = ""
            THEN Ret(FALSE, h \o <<Speak("What would you like me to write?")>>, st)
            ELSE IF Raises(e, 1)
            THEN Ret(FALSE, h \o <<Act("pyautogui.typewrite", text, TRUE),
                                   Speak("Failed to write text: " \o Err)>>, st)
            ELSE Ret(TRUE, h \o <<Act("pyautogui.typewrite", text, FALSE),
                                  Speak("Text '" \o text \o "' written successfully")>>, st)
    IN  Written(write_slot(command))

\* the text _delete_text extracts from the command
delete_text_slot(command) ==
    StrStrip(StrReplace(StrReplace(command, "delete text", ""), "remove text", ""))

delete_text(command, st, e) ==
    LET h == <<Call("_delete_text", command)>>
        Deleted(text) ==
            LET said == IF text # ""
                        THEN Speak("Selecting text to delete. Please use Ctrl+A to select all, or position cursor where you want to delete.")
                        ELSE Speak("Deleting current line")
                done == IF text # "" THEN Speak("Deleted text '" \o text \o "'")
                        ELSE Speak("Line deleted")
            IN  IF Raises(e, 1)
                THEN Ret(FALSE, h \o <<said, Act("pyautogui.press", text, TRUE),
                                       Speak("Failed to delete text: " \o Err)>>, st)
                ELSE Ret(TRUE, h \o <<said, Act("pyautogui.press", text, FALSE), done>>, st)
    IN  Deleted(delete_text_slot(command))

delete_file(command, st, e) ==
    LET h == <<Call("_delete_file", command)>>
        \* the file to delete: confirmed aloud when it was met in the current folder
        Removed(pre, victim) ==
            IF Raises(e, 1)
            THEN Ret(FALSE, pre \o <<Act("os.remove", EntryPath(victim), TRUE),
                                     Speak("Failed to delete file: " \o Err)>>, st)
            ELSE Ret(TRUE, pre \o <<Act("os.remove", EntryPath(victim), FALSE),
                                    Speak("File " \o victim.name \o " deleted successfully")>>,
                     [st EXCEPT !.fs = SelectSeq(@, LAMBDA en : EntryPath(en) # EntryPath(victim))])
        Found(name, here, found) ==
            IF name = ""
            THEN Ret(FALSE, h \o <<Speak("Which file would you like to delete?")>>, st)
            ELSE IF here # << >>
            THEN Removed(h \o <<Speak("Are you sure you want to delete " \o Head(here).name
                                      \o "? Say yes to confirm or no to cancel.")>>, Head(here))
            ELSE IF found # << >> THEN Removed(h, Head(found))
            ELSE Ret(FALSE, h \o <<Speak("File '" \o name \o "' not found")>>, st)
        Named(name) ==
            Found(name,
                  IF IsDir(st.fs, st.current_folder)
                  THEN Matching(SelectSeq(ListDir(st.fs, st.current_folder),
                                          LAMBDA en : ~en.isdir), name)
                  ELSE << >>,
                  Matching(WalkAll(st.fs, << PathJoin(Home, "Documents"), PathJoin(Home, "Desktop"),
                                             st.current_folder >>, FALSE), name))
    IN  Named(Residual(command, "delete file"))

save_file_enhanced(command, st, e) ==
    LET h == <<Call("_save_file_enhanced", command)>>
        Saved(name) ==
            LET keys == IF name # "" THEN "ctrl+shift+s" ELSE "ctrl+s"
            IN  IF Raises(e, 1)
                THEN Ret(FALSE, h \o <<Act("pyautogui.hotkey", keys, TRUE),
                                       Speak("Failed to save file: " \o Err)>>, st)
                ELSE Ret(TRUE, h \o <<Act("pyautogui.hotkey", keys, FALSE),
                                      Speak(IF name # "" THEN "File saved as " \o name
                                            ELSE "File saved")>>, st)
    IN  Saved(IF StrContains(command, "save as") THEN Residual(command, "save as") ELSE "")

save_file_to_location(command, st, e) ==
    LET h == <<Call("_save_file_to_location", command)>>
        folder_map ==
            << <<"desktop", "Desktop">>, <<"documents", "Documents">>,
               <<"downloads", "Downloads">>, <<"pictures", "Pictures">>,
               <<"doc", "Documents">>, <<"download", "Downloads">> >>
        Mapped(location, sub) ==
            IF location = ""
            THEN Ret(FALSE, h \o <<Speak("Where would you like to save the file?")>>, st)
            ELSE IF sub = ""
            THEN Ret(FALSE, h \o <<Speak("Location '" \o location
                                         \o "' not recognized. Use: desktop, documents, downloads, or pictures")>>, st)
            ELSE IF Raises(e, 1)
            THEN Ret(FALSE, h \o <<Act("pyautogui.typewrite", PathJoin(Home, sub), TRUE),
                                   Speak("Failed to save file to location: " \o Err)>>, st)
            ELSE Ret(TRUE, h \o <<Act("pyautogui.typewrite", PathJoin(Home, sub), FALSE),
                                  Speak("File saved to " \o location)>>, st)
        Named(location) == Mapped(location, Lookup(folder_map, StrLower(location)))
    IN  Named(Residual(command, "save to"))


(***************************************************************************)
(* Dispatch: the statistical route and the static keyword cascade both     *)
(* select a handler and the command text handed to it.                     *)
(***************************************************************************)
Target(h, arg) == [h |-> h, arg |-> arg]

\* the chain ends in a default handler instead of return False
NoTargetDefault == Target("_open_browser", "")

\* _route_by_intent falls off the end of its if/elif chain: return False
NoTarget == Target("", "")

\* the methods _route_by_intent calls that the class does not define
UndefinedHandlers ==
    { "_close_tab", "_handle_chat", "_lock_system", "_maximize_window", "_minimize_window",
      "_open_camera", "_open_powerpoint", "_open_vscode", "_open_word", "_read_clipboard",
      "_read_file_aloud", "_read_screen", "_read_selected_text", "_scroll_down", "_scroll_up",
      "_stop", "_take_screenshot", "_unlock_system", "_whatsapp_download", "_whatsapp_send" }

\* a router that ignores the keywords of the text
route_to_default(intent, original_command) == Target("_open_browser", original_command)

\* _route_by_intent(intent, original_command): the handler it calls
route_by_intent(intent, original_command) ==
    LET has(w) == StrContains(StrLower(original_command), w)
        cmd(h) == Target(h, original_command)
    IN  CASE intent = "youtube_open" -> cmd("_open_youtube")
          [] intent = "youtube_control" ->
                 IF has("play") THEN cmd("_play_video")
                 ELSE IF has("pause") THEN cmd("_pause_video")
                 ELSE IF has("next") THEN cmd("_next_video")
                 ELSE IF has("previous") THEN cmd("_previous_video")
                 ELSE NoTarget
          [] intent = "youtube_search" -> cmd("_search_youtube")
          [] intent = "browser_open" ->
                 IF has("google") THEN cmd("_open_browser")
                 ELSE IF has("youtube") THEN cmd("_open_youtube")
                 ELSE IF has("website") \/ has("open") THEN cmd("_open_website")
                 ELSE cmd("_open_browser")
          [] intent = "browser_search" -> cmd("_search_google")
          [] intent = "tab_next" -> cmd("_next_tab")
          [] intent = "tab_previous" -> cmd("_previous_tab")
          [] intent = "tab_close" -> cmd("_close_tab")
          [] intent = "file_explorer" ->
                 IF has("documents") THEN Target("_navigate_to_folder", "go to documents")
                 ELSE IF has("downloads") THEN Target("_navigate_to_folder", "go to downloads")
                 ELSE IF has("pictures") THEN Target("_navigate_to_folder", "go to pictures")
                 ELSE cmd("_open_file_explorer_navigate")
          [] intent = "file_create" -> cmd("_create_file")
          [] intent = "file_write" -> cmd("_write_to_file")
          [] intent = "file_save" -> cmd("_save_file_enhanced")
          [] intent = "file_close" -> cmd("_close_file")
          [] intent = "file_open" -> cmd("_open_file_enhanced")
          [] intent = "file_read" -> cmd("_read_file_aloud")
          [] intent = "app_open" ->
                 IF has("youtube") \/ has("yt") THEN cmd("_open_youtube")
                 ELSE IF has("whatsapp") THEN cmd("_open_whatsapp")
                 ELSE IF has("chrome") \/ has("browser") THEN cmd("_open_browser")
                 ELSE IF has("vscode") \/ has("vs code") THEN cmd("_open_vscode")
                 ELSE IF has("word") THEN cmd("_open_word")
                 ELSE IF has("powerpoint") THEN cmd("_open_powerpoint")
                 ELSE IF has("camera") THEN cmd("_open_camera")
                 ELSE cmd("_open_browser")
          [] intent = "whatsapp_send" -> cmd("_whatsapp_send")
          [] intent = "whatsapp_download" -> cmd("_whatsapp_download")
          [] intent = "screen_reader" ->
                 IF has("clipboard") THEN cmd("_read_clipboard")
                 ELSE IF has("selected") THEN cmd("_read_selected_text")
                 ELSE cmd("_read_screen")
          [] intent = "utility_time" -> cmd("_get_time")
          [] intent = "utility_help" -> cmd("_show_help")
          [] intent = "utility_stop" -> cmd("_stop")
          [] intent = "utility_chat" -> cmd("_handle_chat")
          [] intent = "utility_screenshot" -> cmd("_take_screenshot")
          [] intent = "utility_window" ->
                 IF has("minimize") THEN cmd("_minimize_window")
                 ELSE IF has("maximize") THEN cmd("_maximize_window")
                 ELSE NoTarget
          [] intent = "utility_scroll" ->
                 IF has("down") THEN cmd("_scroll_down")
                 ELSE IF has("up") THEN cmd("_scroll_up")
                 ELSE NoTarget
          [] intent = "system_lock" -> cmd("_lock_system")
          [] intent = "system_unlock" -> cmd("_unlock_system")
          [] OTHER -> NoTarget

\* a matcher that prefers the more specific "open folder" phrase to the
\* navigation branch declared before it
static_specific_first(command, command_lower) ==
    IF has_any_keyword(command_lower, <<"open folder", "show folder", "launch folder">>)
    THEN Target("_open_folder", command)
    ELSE Target("_navigate_to_folder", command)

\* _process_command_static(command, command_lower): the branch of the
\* keyword cascade that is taken
process_command_static(command, command_lower) ==
    LET any(kw) == has_any_keyword(command_lower, kw)
        has(w)  == StrContains(command_lower, w)
        cmd(h)  == Target(h, command)
    IN  IF any(<<"open youtube", "launch youtube", "start youtube", "youtube open",
                 "play youtube", "go to youtube", "open yt">>) THEN cmd("_open_youtube")
        ELSE IF any(<<"open browser", "open edge", "launch browser", "start browser",
                      "open web browser", "open chrome", "browser open">>) THEN cmd("_open_browser")
        ELSE IF any(<<"open file explorer", "open explorer", "file explorer",
                      "show file explorer", "launch file explorer", "open files">>)
        THEN cmd("_open_file_explorer_navigate")
        ELSE IF any(<<"go to", "navigate to", "take me to", "open", "show me", "switch to">>)
                /\ any(<<"downloads", "documents", "desktop", "pictures", "music", "videos">>)
        THEN cmd("_navigate_to_folder")
        ELSE IF any(<<"open folder", "show folder", "launch folder">>) THEN cmd("_open_folder")
        ELSE IF any(<<"list files", "list folders", "show files", "show folders", "what files",
                      "what folders", "files in", "folders in", "read files", "read folders">>)
        THEN cmd("_list_files_in_folder")
        ELSE IF any(<<"open file", "open document", "show file", "launch file", "open the file">>)
        THEN cmd("_open_file_enhanced")
        ELSE IF any(<<"open picture", "open image", "open photo", "show picture", "show image",
                      "show photo", "view picture", "view image">>) THEN cmd("_open_picture")
        ELSE IF any(<<"go back", "go backwards", "back folder", "previous folder", "return",
                      "go back to">>) /\ has("folder") THEN cmd("_go_back_folder")
        ELSE IF any(<<"where am i", "where am", "current location", "current folder",
                      "my location", "what folder", "which folder">>)
        THEN cmd("_announce_current_location")
        ELSE IF any(<<"open notepad", "open editor", "launch notepad", "start notepad",
                      "open text editor", "notepad open", "editor open">>) THEN cmd("_open_editor")
        ELSE IF any(<<"create file", "create document", "new file", "make file", "new document",
                      "make document", "create a file">>) THEN cmd("_create_file")
        ELSE IF (has("write") \/ has("type"))
                /\ any(<<"in file", "to file", "in document", "to document", "in the file">>)
        THEN cmd("_write_to_file")
        ELSE IF any(<<"delete text", "remove text", "erase text", "clear text",
                      "remove the text", "delete the text">>) THEN cmd("_delete_text")
        ELSE IF any(<<"delete file", "remove file", "erase file", "delete the file",
                      "remove the file">>) THEN cmd("_delete_file")
        ELSE IF any(<<"save file", "save document", "save the file", "save as">>)
        THEN cmd("_save_file_enhanced")
        ELSE IF any(<<"save to", "save in", "save at">>) THEN cmd("_save_file_to_location")
        ELSE IF any(<<"close file", "close document", "close the file", "exit file", "quit file">>)
        THEN cmd("_close_file")
        ELSE IF has("youtube") \/ has("yt")
        THEN IF any(<<"search", "find", "play", "look for">>) \/ has("search")
             THEN cmd("_search_youtube") ELSE cmd("_open_youtube")
        ELSE IF any(<<"go to youtube", "open youtube", "launch youtube", "start youtube",
                      "youtube open">>) /\ ~has("search") THEN cmd("_open_youtube")
        ELSE IF any(<<"search google", "google search", "search on google", "google find",
                      "find on google">>) THEN cmd("_search_google")
        ELSE IF any(<<"play video", "play the video", "start video", "resume video",
                      "continue video">>) THEN cmd("_play_video")
        ELSE IF any(<<"pause video", "pause the video", "stop video", "halt video">>)
        THEN cmd("_pause_video")
        ELSE IF any(<<"next video", "next", "skip video", "skip", "next track", "next song">>)
        THEN cmd("_next_video")
        ELSE IF any(<<"previous video", "previous", "last video", "go back video",
                      "previous track", "previous song">>) THEN cmd("_previous_video")
        ELSE IF any(<<"next tab", "switch tab", "next browser tab", "switch to next tab",
                      "change tab">>) THEN cmd("_next_tab")
        ELSE IF any(<<"previous tab", "last tab", "previous browser tab", "go back tab",
                      "back tab">>) THEN cmd("_previous_tab")
        ELSE IF any(<<"open website", "open site", "go to website", "go to site",
                      "visit website", "visit site", "open the website">>) THEN cmd("_open_website")
        ELSE IF any(<<"open whatsapp", "whatsapp", "whatsapp web", "open whatsapp web">>)
        THEN cmd("_open_whatsapp")
        ELSE IF any(<<"what time is it", "what time", "tell me the time", "current time",
                      "time please", "what's the time">>) THEN cmd("_get_time")
        ELSE IF any(<<"help", "what can you do", "show help", "list commands",
                      "available commands", "commands", "capabilities">>) THEN cmd("_show_help")
        ELSE IF any(<<"stop", "shutdown", "exit", "quit", "close", "end", "terminate">>)
        THEN cmd("stop")
        ELSE cmd("unresolved")

\* a final else that also clears the running flag
InvokeStopping(t, st, e) ==
    Ret(FALSE, <<Speak("Sorry, I didn't catch that. You can say 'help' to know what I can do.")>>,
        [st EXCEPT !.is_running = FALSE])

\* the call of the selected handler; the stop branch and the final else of
\* the static cascade act in place
Invoke(t, st, e) ==
    CASE t.h = "_open_youtube" -> open_youtube(st, e)
      [] t.h = "_open_browser" -> open_browser(st, e)
      [] t.h = "_search_youtube" -> search_youtube(t.arg, st, e)
      [] t.h = "_play_video" -> play_video(st, e)
      [] t.h = "_pause_video" -> pause_video(st, e)
      [] t.h = "_next_video" -> next_video(st, e)
      [] t.h = "_previous_video" -> previous_video(st, e)
      [] t.h = "_next_tab" -> next_tab(st, e)
      [] t.h = "_previous_tab" -> previous_tab(st, e)
      [] t.h = "_open_website" -> open_website(t.arg, st, e)
      [] t.h = "_search_google" -> search_google(t.arg, st, e)
      [] t.h = "_open_whatsapp" -> open_whatsapp(st, e)
      [] t.h = "_open_file_explorer_navigate" -> open_file_explorer_navigate(st, e)
      [] t.h = "_navigate_to_folder" -> navigate_to_folder(t.arg, st, e)
      [] t.h = "_list_files_in_folder" -> list_files_in_folder(st, e)
      [] t.h = "_open_file_enhanced" -> open_file_enhanced(t.arg, st, e)
      [] t.h = "_open_picture" -> open_picture(t.arg, st, e)
      [] t.h = "_go_back_folder" -> go_back_folder(st, e)
      [] t.h = "_announce_current_location" -> announce_current_location(st, e)
      [] t.h = "_open_folder" -> open_folder(t.arg, st, e)
      [] t.h = "_create_file" -> create_file(t.arg, st, e)
      [] t.h = "_open_editor" -> open_editor(st, e)
      [] t.h = "_write_to_file" -> write_to_file(t.arg, st, e)
      [] t.h = "_delete_text" -> delete_text(t.arg, st, e)
      [] t.h = "_delete_file" -> delete_file(t.arg, st, e)
      [] t.h = "_save_file_enhanced" -> save_file_enhanced(t.arg, st, e)
      [] t.h = "_save_file_to_location" -> save_file_to_location(t.arg, st, e)
      [] t.h = "_close_file" -> close_file(st, e)
      [] t.h = "_get_time" -> get_time(st, e)
      [] t.h = "_show_help" -> show_help(st, e)
      [] t.h = "stop" ->
             Ret(TRUE, <<Speak("Goodbye!")>>, [st EXCEPT !.is_running = FALSE])
      [] t.h = "unresolved" ->
             Ret(FALSE, <<Speak("Sorry, I didn't catch that. You can say 'help' to know what I can do.")>>, st)
      [] t.h \in UndefinedHandlers -> Undefined(t.h, st)
      [] OTHER -> Ret(FALSE, << >>, st)


(***************************************************************************)
(* CommandProcessor: the regular expressions of its command table.         *)
(* A regular expression is a sequence of nodes; matching follows re's      *)
(* backtracking order, so the first result is the match re reports.        *)
(***************************************************************************)
\* \w in a str pattern, on the characters of lower-cased text
WordChars ==
    DOMAIN Lowered \cup { Lowered[c] : c \in DOMAIN Lowered }
        \cup { "0", "1", "2", "3", "4", "5", "6", "7", "8", "9", "_" }

\* how many characters from position i on satisfy the test, without a gap
\* (class: "space" for \s, "word" for \w, "any" for .)
RunLength(s, i, class) ==
    LET Test(c) == CASE class = "space" -> IsSpace(c)
                     [] class = "word" -> c \in WordChars
                     [] OTHER -> c # "\n"
        Until(stops) == IF stops = { } THEN Len(s) + 1 - i ELSE SetMin(stops) - i
    IN  Until({ j \in i..Len(s) : ~Test(SubSeq(s, j, j)) })

\* one state of the matcher: where the match has got to, and the span
\* of the group (<< >> while the group has not taken part)
At(i, cap) == [end |-> i, cap |-> cap]

RECURSIVE MatchSeq(_, _, _, _, _)
RECURSIVE MatchRest(_, _, _, _, _)
RECURSIVE MatchAlts(_, _, _, _, _)
RECURSIVE MatchNode(_, _, _, _)

\* the ways nodes[k..] match s from position i, in re's order of preference
MatchSeq(nodes, k, s, i, cap) ==
    IF k > Len(nodes) THEN << At(i, cap) >>
    ELSE MatchRest(nodes, k, s, MatchNode(nodes[k], s, i, cap), 1)

\* the ways nodes[k+1..] match after each of the ways firsts[j..] of nodes[k]
MatchRest(nodes, k, s, firsts, j) ==
    IF j > Len(firsts) THEN << >>
    ELSE MatchSeq(nodes, k + 1, s, firsts[j].end, firsts[j].cap)
             \o MatchRest(nodes, k, s, firsts, j + 1)

\* the ways the alternatives rs[a..] match, the earlier alternative first
MatchAlts(rs, a, s, i, cap) ==
    IF a > Len(rs) THEN << >>
    ELSE MatchSeq(rs[a], 1, s, i, cap) \o MatchAlts(rs, a + 1, s, i, cap)

MatchNode(n, s, i, cap) ==
    CASE n.t = "lit" ->
             IF i + Len(n.s) - 1 <= Len(s) /\ SubSeq(s, i, i + Len(n.s) - 1) = n.s
             THEN << At(i + Len(n.s), cap) >> ELSE << >>
      [] n.t = "ws1" ->      \* greedy: the longest run first, one character at least
             LET Runs(m) == [j \in 1..m |-> At(i + m + 1 - j, cap)]
             IN  Runs(RunLength(s, i, "space"))
      [] n.t = "ws0" ->      \* greedy: the longest run first, down to none
             LET Runs(m) == [j \in 1..(m + 1) |-> At(i + m + 1 - j, cap)]
             IN  Runs(RunLength(s, i, "space"))
      [] n.t = "word1" ->
             LET Runs(m) == [j \in 1..m |-> At(i + m + 1 - j, cap)]
             IN  Runs(RunLength(s, i, "word"))
      [] n.t = "lazy" ->     \* lazy: the shortest first; . matches all but a newline
             LET Runs(m) == [j \in 1..m |-> At(i + j, cap)]
             IN  Runs(RunLength(s, i, "any"))
      [] n.t = "opt" -> MatchSeq(n.r[1], 1, s, i, cap) \o << At(i, cap) >>
      [] n.t = "alt" -> MatchAlts(n.r, 1, s, i, cap)
      [] n.t = "cap" ->
             LET Grouped(ms) == [j \in 1..Len(ms) |-> At(ms[j].end, <<i, ms[j].end>>)]
             IN  Grouped(MatchSeq(n.r[1], 1, s, i, cap))
      [] n.t = "optcap" ->
             LET Grouped(ms) == [j \in 1..Len(ms) |-> At(ms[j].end, <<i, ms[j].end>>)]
             IN  Grouped(MatchSeq(n.r[1], 1, s, i, cap)) \o << At(i, cap) >>

\* match = re.search(pattern, s): found, and match.groups()[0] (None for
\* a group that took no part); the leftmost start that matches wins
Search(pattern, s) ==
    LET Group(m) ==
            [found |-> TRUE,
             group |-> IF m.cap = << >> THEN None ELSE SubSeq(s, m.cap[1], m.cap[2] - 1)]
        Found(starts) ==
            IF starts = { } THEN [found |-> FALSE, group |-> None]
            ELSE Group(Head(MatchSeq(pattern, 1, s, SetMin(starts), << >>)))
    IN  Found({ i \in 1..(Len(s) + 1) : MatchSeq(pattern, 1, s, i, << >>) # << >> })

\* self.commands, in the order the dictionary and its lists are written
Patterns ==
    LET Lit(s)    == [t |-> "lit",  s |-> s,  r |-> << >>]      \* literal text
        Ws1       == [t |-> "ws1",  s |-> "", r |-> << >>]      \* \s+
        Ws0       == [t |-> "ws0",  s |-> "", r |-> << >>]      \* \s*
        Word1     == [t |-> "word1", s |-> "", r |-> << >>]     \* \w+
        Lazy      == [t |-> "lazy", s |-> "", r |-> << >>]      \* .+?
        Opt(r)    == [t |-> "opt",  s |-> "", r |-> <<r>>]      \* (?:r)?
        Alt(rs)   == [t |-> "alt",  s |-> "", r |-> rs]         \* (?:r1|r2|...)
        Cap(r)    == [t |-> "cap",  s |-> "", r |-> <<r>>]      \* (r), the group
        OptCap(r) == [t |-> "optcap", s |-> "", r |-> <<r>>]    \* (r)?
        The       == Opt(<< Lit("the"), Ws1 >>)                 \* (?:the\s+)?
        DocumentOrFile == Alt(<< << Lit("document") >>, << Lit("file") >> >>)
    IN
        << [type |-> "open_folder",
            re |-> << Lit("open"), Ws1, The, Cap(<< Lazy >>), Ws1, Lit("folder") >>],
           [type |-> "open_folder",
            re |-> << Lit("navigate"), Ws1, Lit("to"), Ws1, The, Cap(<< Lazy >>) >>],
           [type |-> "open_folder",
            re |-> << Lit("go"), Ws1, Lit("to"), Ws1, The, Cap(<< Lazy >>) >>],
           [type |-> "open_file",
            re |-> << Lit("open"), Ws1, The, Lit("file"), Ws1, Cap(<< Lazy >>) >>],
           [type |-> "open_file",
            re |-> << Lit("open"), Ws1, Cap(<< Lazy, Lit("."), Word1 >>) >>],
           [type |-> "create_file",
            re |-> << Lit("create"), Ws1, Opt(<< Lit("a"), Ws1 >>), Opt(<< Lit("new"), Ws1 >>),
                      Lit("file"), Ws1, Opt(<< Lit("called"), Ws1 >>), Cap(<< Lazy >>) >>],
           [type |-> "create_file",
            re |-> << Lit("new"), Ws1, Lit("file"), Ws1, Cap(<< Lazy >>) >>],
           [type |-> "read_file",
            re |-> << Lit("read"), Ws1, The, Opt(<< Lit("current"), Ws1 >>), DocumentOrFile,
                      Ws1, Cap(<< Lazy >>) >>],
           [type |-> "read_file",
            re |-> << Lit("read"), Ws1, Cap(<< Lazy, Lit("."), Word1 >>) >>],
           [type |-> "read_current",
            re |-> << Lit("read"), Ws1, The, Lit("current"), Ws1, DocumentOrFile >>],
           [type |-> "read_current",
            re |-> << Lit("read"), Ws1, Opt(<< Lit("this"), Ws1 >>), DocumentOrFile >>],
           [type |-> "save_file",
            re |-> << Lit("save"), Ws1, The, Opt(<< Lit("current"), Ws1 >>), DocumentOrFile,
                      Ws1, Lit("as"), Ws1, Cap(<< Lazy >>) >>],
           [type |-> "save_file",
            re |-> << Lit("save"), Ws1, Lit("as"), Ws1, Cap(<< Lazy >>) >>],
           [type |-> "read_screen",
            re |-> << Lit("read"), Ws1, The, Lit("screen") >>],
           [type |-> "read_screen",
            re |-> << Lit("read"), Ws1, Alt(<< << Lit("what") >>, << Lit("is") >> >>), Ws1,
                      Alt(<< << Lit("on") >>, << Lit("in") >> >>), Ws1, The, Lit("screen") >>],
           [type |-> "read_screen",
            re |-> << Lit("what"), Ws1, Lit("does"), Ws1, The, Lit("screen"), Ws1, Lit("say") >>],
           [type |-> "list_directory",
            re |-> << Lit("list"), Ws1, The,
                      Opt(<< Alt(<< << Lit("contents") >>, << Lit("files") >>, << Lit("items") >> >>) >>),
                      Ws0, Opt(<< Lit("of"), Ws1 >>), OptCap(<< Lazy >>) >>],
           [type |-> "list_directory",
            re |-> << Lit("show"), Ws1, Opt(<< Lit("me"), Ws1 >>), The,
                      Opt(<< Alt(<< << Lit("files") >>, << Lit("contents") >> >>) >>),
                      Ws0, Opt(<< Lit("in"), Ws1 >>), OptCap(<< Lazy >>) >>],
           [type |-> "list_directory",
            re |-> << Lit("what"), Ws1, Alt(<< << Lit("files") >>, << Lit("items") >> >>), Ws1,
                      Opt(<< Lit("are"), Ws1 >>),
                      Opt(<< Alt(<< << Lit("in") >>, << Lit("in"), Ws1, Lit("the") >> >>) >>),
                      Ws0, OptCap(<< Lazy >>) >>],
           [type |-> "create_folder",
            re |-> << Lit("create"), Ws1, Opt(<< Lit("a"), Ws1 >>), Opt(<< Lit("new"), Ws1 >>),
                      Lit("folder"), Ws1, Opt(<< Lit("called"), Ws1 >>), Cap(<< Lazy >>) >>],
           [type |-> "create_folder",
            re |-> << Lit("new"), Ws1, Lit("folder"), Ws1, Cap(<< Lazy >>) >> ] >>


(***************************************************************************)
(* FileOperations: the object CommandProcessor acts through.  Its state is *)
(* fo = [current_path, fs, blank]: the directory it stands in, the file    *)
(* system, and the files whose content is the empty string.                *)
(***************************************************************************)
\* os.path.isabs(p)
isabs(p) == StartsWith(p, "/")

\* os.path.join(a, b)
os_path_join(a, b) ==
    IF isabs(b) THEN b
    ELSE IF a = "" \/ EndsWith(a, "/") THEN a \o b
    ELSE a \o "/" \o b

\* p.split("/")
RECURSIVE SplitPath(_)
SplitPath(p) ==
    LET Cut(i) == IF i = 0 THEN << p >>
                  ELSE << SubSeq(p, 1, i - 1) >> \o SplitPath(StrFrom(p, i + 1))
    IN  Cut(StrFind(p, "/", 1))

\* the components normpath keeps: empty ones and "." dropped, ".." resolved
RECURSIVE Resolve(_, _, _, _)
Resolve(comps, k, kept, abs) ==
    IF k > Len(comps) THEN kept
    ELSE LET c    == comps[k]
             next == IF c = "" \/ c = "." THEN kept
                     ELSE IF c # ".." THEN Append(kept, c)
                     ELSE IF kept # << >> /\ kept[Len(kept)] # ".." THEN SubSeq(kept, 1, Len(kept) - 1)
                     ELSE IF abs THEN kept
                     ELSE Append(kept, c)
         IN  IF Len(next) >= 0 THEN Resolve(comps, k + 1, next, abs) ELSE kept

\* sep.join(names)
RECURSIVE JoinStr(_, _)
JoinStr(names, sep) ==
    IF names = << >> THEN ""
    ELSE IF Len(names) = 1 THEN names[1]
    ELSE names[1] \o sep \o JoinStr(Tail(names), sep)

\* os.path.normpath(p)
normpath(p) ==
    LET Rooted(joined) == IF isabs(p) THEN "/" \o joined
                          ELSE IF joined = "" THEN "."
                          ELSE joined
    IN  Rooted(JoinStr(Resolve(SplitPath(p), 1, << >>, isabs(p)), "/"))

\* os.path.dirname(p) of a normalised path
Dirname(p) ==
    LET Head_(i) == IF i = 0 THEN "" ELSE IF i = 1 THEN "/" ELSE SubSeq(p, 1, i - 1)
    IN  Head_(StrRFind(p, "/"))

\* os.path.normpath(os.path.join(target_path, name)) with target_path the
\* current path, as every method computes it
fo_path(fo, name) == normpath(os_path_join(fo.current_path, name))

\* what a call of CommandProcessor can meet: raises, the collaborator
\* handed to __init__ raises instead of returning; os_fails, the operating
\* system refuses the operation inside FileOperations or ScreenReader;
\* screen, the text OCR reads from the screen ("" after a failure)
ScreenTexts == { "", "Inbox" }

CPEnvs ==
    { [ raises |-> FALSE, os_fails |-> FALSE, screen |-> t ] : t \in ScreenTexts }
        \cup { [ raises |-> FALSE, os_fails |-> TRUE, screen |-> "" ],
               [ raises |-> TRUE, os_fails |-> FALSE, screen |-> "" ] }

\* a navigate_to that moves to the joined path without looking at it
fo_navigate_unchecked(path, fo) ==
    [value |-> FALSE, fo |-> [fo EXCEPT !.current_path = os_path_join(fo.current_path, path)]]

\* FileOperations.navigate_to(path)
fo_navigate_to(path, fo) ==
    LET At_(p) == IF Exists(fo.fs, p) /\ IsDir(fo.fs, p)
                  THEN [value |-> TRUE, fo |-> [fo EXCEPT !.current_path = p]]
                  ELSE [value |-> FALSE, fo |-> fo]
    IN  At_(normpath(IF isabs(path) THEN path ELSE os_path_join(fo.current_path, path)))

\* FileOperations.list_directory(path); path = None lists the current path
fo_list_directory(path, fo) ==
    LET Names(items) == [i \in 1..Len(items) |-> items[i].name]
        At_(p) == IF Exists(fo.fs, p) /\ IsDir(fo.fs, p)
                  THEN [value |-> Names(ListDir(fo.fs, p)), fo |-> fo]
                  ELSE [value |-> << >>, fo |-> fo]
        Of(target) ==
            At_(normpath(IF isabs(target) THEN target ELSE os_path_join(fo.current_path, target)))
    IN  Of(IF Truthy(path) THEN path ELSE fo.current_path)

\* FileOperations.open_file(filename)
fo_open_file(filename, fo, e) ==
    LET At_(p) == [value |-> Exists(fo.fs, p) /\ IsFile(fo.fs, p) /\ ~e.os_fails, fo |-> fo]
    IN  At_(fo_path(fo, filename))

\* FileOperations.create_file(filename): open(file_path, 'w') creates the
\* file or empties it; it fails on a directory and in a missing directory
fo_create_file(filename, fo, e) ==
    LET At_(p, dir) ==
            IF IsDir(fo.fs, p) \/ ~IsDir(fo.fs, dir) \/ e.os_fails
            THEN [value |-> FALSE, fo |-> fo]
            ELSE [value |-> TRUE,
                  fo |-> [fo EXCEPT !.fs = CreateEntry(@, dir, Basename(p)),
                                    !.blank = @ \cup { p }]]
        Under(p) == At_(p, Dirname(p))
    IN  Under(fo_path(fo, filename))

\* FileOperations.read_file(filename): the content, or None
fo_read_file(filename, fo, e) ==
    LET At_(p) == IF Exists(fo.fs, p) /\ IsFile(fo.fs, p) /\ ~e.os_fails
                  THEN [value |-> IF p \in fo.blank THEN "" ELSE "text of " \o Basename(p),
                        fo |-> fo]
                  ELSE [value |-> None, fo |-> fo]
    IN  At_(fo_path(fo, filename))

\* os.makedirs(p, exist_ok=True) where no file is in the way
RECURSIVE MakeDirs(_, _)
MakeDirs(files, p) ==
    LET Under(dir) == IF IsDir(files, p) \/ dir = "" \/ dir = p THEN files
                      ELSE Append(MakeDirs(files, dir), Entry(dir, Basename(p), TRUE))
    IN  Under(Dirname(p))

\* FileOperations.create_folder(folder_name)
fo_create_folder(folder_name, fo, e) ==
    LET At_(p) == IF IsFile(fo.fs, p) \/ IsFile(fo.fs, Dirname(p)) \/ e.os_fails
                  THEN [value |-> FALSE, fo |-> fo]
                  ELSE [value |-> TRUE, fo |-> [fo EXCEPT !.fs = MakeDirs(@, p)]]
    IN  At_(fo_path(fo, folder_name))

\* FileOperations.write_file(filename, content): open(file_path, 'w')
\* creates the file or replaces its content
fo_write_file(filename, content, fo, e) ==
    LET At_(p, dir) ==
            IF IsDir(fo.fs, p) \/ ~IsDir(fo.fs, dir) \/ e.os_fails
            THEN [value |-> FALSE, fo |-> fo]
            ELSE [value |-> TRUE,
                  fo |-> [fo EXCEPT !.fs = CreateEntry(@, dir, Basename(p)),
                                    !.blank = IF content = "" THEN @ \cup { p } ELSE @ \ { p }]]
        Under(p) == At_(p, Dirname(p))
    IN  Under(fo_path(fo, filename))

\* FileOperations.save_as(filename, content)
fo_save_as(filename, content, fo, e) == fo_write_file(filename, content, fo, e)

\* FileOperations.delete_file(filename)
fo_delete_file(filename, fo, e) ==
    LET At_(p) ==
            IF Exists(fo.fs, p) /\ IsFile(fo.fs, p) /\ ~e.os_fails
            THEN [value |-> TRUE,
                  fo |-> [fo EXCEPT !.fs = SelectSeq(@, LAMBDA en : EntryPath(en) # p),
                                    !.blank = @ \ { p }]]
            ELSE [value |-> FALSE, fo |-> fo]
    IN  At_(fo_path(fo, filename))

\* FileOperations.get_file_info(filename): the name, path and kind of the
\* file, or None
fo_get_file_info(filename, fo, e) ==
    LET At_(p) ==
            IF Exists(fo.fs, p) /\ ~e.os_fails
            THEN [value |-> [name |-> filename, path |-> p, is_file |-> IsFile(fo.fs, p),
                             is_dir |-> IsDir(fo.fs, p)],
                  fo |-> fo]
            ELSE [value |-> None, fo |-> fo]
    IN  At_(fo_path(fo, filename))


(***************************************************************************)
(* CommandProcessor: process_command and the commands it executes.         *)
(***************************************************************************)
\* a command's outcome: the (success, response) pair it returns, or
\* raised when an exception leaves it, and the state of file_ops
Outcome(success, response, fo) ==
    [success |-> success, response |-> response, raised |-> FALSE, fo |-> fo]

Raised(fo) == [success |-> FALSE, response |-> "", raised |-> TRUE, fo |-> fo]

\* text[:n]
Prefix(text, n) == IF Len(text) <= n THEN text ELSE SubSeq(text, 1, n)

\* the longest response _read_file and _read_screen return
ResponseLimit == 500

\* the most items _list_directory names
ListLimit == 20

folder_mappings ==
    << << "documents", PathJoin(Home, "Documents") >>, << "desktop", PathJoin(Home, "Desktop") >>,
       << "downloads", PathJoin(Home, "Downloads") >>, << "pictures", PathJoin(Home, "Pictures") >>,
       << "music", PathJoin(Home, "Music") >>, << "videos", PathJoin(Home, "Videos") >> >>

\* filename.strip().strip('"').strip("'")
CleanName(name) == StrStripChar(StrStripChar(StrStrip(name), "\""), "'")

cp_open_folder(folder_name, fo, e) ==
    LET Navigated(nav) ==
            IF nav.value THEN Outcome(TRUE, "Opened " \o folder_name \o " folder", nav.fo)
            ELSE Outcome(FALSE, "Could not open " \o folder_name \o " folder", nav.fo)
        Mapped(path) == Navigated(fo_navigate_to(IF path # "" THEN path ELSE folder_name, fo))
    IN  IF ~Truthy(folder_name) THEN Outcome(FALSE, "Please specify a folder name", fo)
        ELSE IF e.raises THEN Raised(fo)
        ELSE Mapped(Lookup(folder_mappings, StrStrip(StrLower(folder_name))))

cp_open_file(filename, fo, e) ==
    IF ~Truthy(filename) THEN Outcome(FALSE, "Please specify a file name", fo)
    ELSE IF e.raises THEN Raised(fo)
    ELSE IF fo_open_file(filename, fo, e).value THEN Outcome(TRUE, "Opened " \o filename, fo)
    ELSE Outcome(FALSE, "Could not open " \o filename, fo)

cp_create_file(filename, fo, e) ==
    LET Created(name, created) ==
            IF created.value THEN Outcome(TRUE, "Created file " \o name, created.fo)
            ELSE Outcome(FALSE, "Could not create " \o name, created.fo)
        Named(name) == Created(name, fo_create_file(name, fo, e))
    IN  IF ~Truthy(filename) THEN Outcome(FALSE, "Please specify a file name", fo)
        ELSE IF e.raises THEN Raised(fo)
        ELSE Named(CleanName(filename))

cp_read_file(filename, fo, e) ==
    LET Read(content) ==
            IF content # None THEN Outcome(TRUE, Prefix(content, ResponseLimit), fo)
            ELSE Outcome(FALSE, "Could not read " \o filename, fo)
    IN  IF ~Truthy(filename) THEN Outcome(FALSE, "Please specify a file name", fo)
        ELSE IF e.raises THEN Raised(fo)
        ELSE Read(fo_read_file(filename, fo, e).value)

cp_read_current_file(fo) == Outcome(FALSE, "Please specify which file to read", fo)

cp_save_file(filename, fo) ==
    IF ~Truthy(filename) THEN Outcome(FALSE, "Please specify a file name", fo)
    ELSE Outcome(FALSE, "Save functionality requires file content. Please use 'write file "
                        \o CleanName(filename) \o "' with content.", fo)

cp_read_screen(fo, e) ==
    IF e.raises THEN Raised(fo)
    ELSE IF e.screen # "" THEN Outcome(TRUE, Prefix(e.screen, ResponseLimit), fo)
    ELSE Outcome(FALSE, "Could not read screen content", fo)

cp_list_directory(folder_name, fo, e) ==
    LET Listed(items) ==
            IF items = << >> THEN Outcome(FALSE, "Directory is empty or not found", fo)
            ELSE IF Len(items) > ListLimit
            THEN Outcome(TRUE, "Contents: " \o JoinStr(SubSeq(items, 1, ListLimit), ", ")
                               \o " and " \o ToString(Len(items) - ListLimit) \o " more", fo)
            ELSE Outcome(TRUE, "Contents: " \o JoinStr(items, ", "), fo)
    IN  IF e.raises THEN Raised(fo)
        ELSE Listed(fo_list_directory(folder_name, fo).value)

cp_create_folder(folder_name, fo, e) ==
    LET Created(name, created) ==
            IF created.value THEN Outcome(TRUE, "Created folder " \o name, created.fo)
            ELSE Outcome(FALSE, "Could not create " \o name, created.fo)
        Named(name) == Created(name, fo_create_folder(name, fo, e))
    IN  IF ~Truthy(folder_name) THEN Outcome(FALSE, "Please specify a folder name", fo)
        ELSE IF e.raises THEN Raised(fo)
        ELSE Named(CleanName(folder_name))

\* _execute_command(command_type, match, full_command); group is
\* match.groups()[0]
execute_command(command_type, group, fo, e) ==
    CASE command_type = "open_folder" -> cp_open_folder(group, fo, e)
      [] command_type = "open_file" -> cp_open_file(group, fo, e)
      [] command_type = "create_file" -> cp_create_file(group, fo, e)
      [] command_type = "read_file" -> cp_read_file(group, fo, e)
      [] command_type = "read_current" -> cp_read_current_file(fo)
      [] command_type = "save_file" -> cp_save_file(group, fo)
      [] command_type = "read_screen" -> cp_read_screen(fo, e)
      [] command_type = "list_directory" -> cp_list_directory(group, fo, e)
      [] command_type = "create_folder" -> cp_create_folder(group, fo, e)
      [] OTHER -> Outcome(FALSE, "Command execution failed", fo)

\* what one call of process_command did: the (success, response) it
\* returned, how many patterns it handed to re.search, the command types it
\* executed, and the state of file_ops it left
Processed(success, response, evaluated, executed, fo) ==
    [success |-> success, response |-> response, evaluated |-> evaluated,
     executed |-> executed, fo |-> fo]

\* a try statement without its except clause: the outcome is passed on as
\* it is
ExecutedUncaught(k, r) == Processed(r.success, r.response, k, << Patterns[k].type >>, r.fo)

\* the value of the try statement around _execute_command
Executed(k, r) ==
    IF r.raised
    THEN Processed(FALSE, "Error: " \o Err, k, << Patterns[k].type >>, r.fo)
    ELSE Processed(r.success, r.response, k, << Patterns[k].type >>, r.fo)

\* the pattern scan goes on to the next pattern when the command failed
RECURSIVE scan_patterns_retry(_, _, _, _)
scan_patterns_retry(text, k, fo, e) ==
    LET Done(r) == IF r.success THEN r ELSE scan_patterns_retry(text, k + 1, fo, e)
        Tried(m) == IF m.found
                    THEN Done(Executed(k, execute_command(Patterns[k].type, m.group, fo, e)))
                    ELSE scan_patterns_retry(text, k + 1, fo, e)
    IN  IF k > Len(Patterns)
        THEN Processed(FALSE, "I didn't understand that command. Please try again.",
                       Len(Patterns), << >>, fo)
        ELSE Tried(Search(Patterns[k].re, text))

\* the loops over self.commands.items() and patterns, from pattern k on
RECURSIVE scan_patterns(_, _, _, _)
scan_patterns(text, k, fo, e) ==
    LET Tried(m) == IF m.found
                    THEN Executed(k, execute_command(Patterns[k].type, m.group, fo, e))
                    ELSE scan_patterns(text, k + 1, fo, e)
    IN  IF k > Len(Patterns)
        THEN Processed(FALSE, "I didn't understand that command. Please try again.",
                       Len(Patterns), << >>, fo)
        ELSE Tried(Search(Patterns[k].re, text))

\* CommandProcessor.process_command(command_text)
cp_process_command(command_text, fo, e) ==
    IF ~Truthy(command_text) THEN Processed(FALSE, "No command received", 0, << >>, fo)
    ELSE scan_patterns(StrStrip(StrLower(command_text)), 1, fo, e)


(***************************************************************************)
(* BeyondTypingMVP: the state of the assistant and the command loop.       *)
(***************************************************************************)
VARIABLES
    pc,                      \* position of run(): start, listen, classify, route, static, next, done
    is_running,              \* self.is_running
    current_path,            \* self.current_path
    current_folder,          \* self.current_folder
    folder_history,          \* self.folder_history
    file_explorer_open,      \* self._file_explorer_open
    fs,                      \* the file system the handlers act on
    INTENT_MODEL_AVAILABLE,  \* the classifier artifact was loaded at start-up
    PYWHATKIT_AVAILABLE,     \* pywhatkit was imported at start-up
    command,                 \* the utterance of the cycle in progress
    intent,                  \* the classifier's prediction for it
    trace,                   \* what the cycle in progress has heard, spoken, called and invoked
    ret,                     \* what process_command returned
    start,                   \* the assistant's state when the cycle began
    file_ops,                \* CommandProcessor.file_ops and the file system it acts on
    cp_call,                 \* the last call of CommandProcessor.process_command
    fo_call                  \* the last call of a method of FileOperations

vars == << pc, is_running, current_path, current_folder, folder_history, file_explorer_open,
           fs, INTENT_MODEL_AVAILABLE, PYWHATKIT_AVAILABLE, command, intent, trace, ret, start,
           file_ops, cp_call, fo_call >>

\* the assistant's state, as the handlers read and update it
St == [ is_running |-> is_running, current_path |-> current_path,
        current_folder |-> current_folder, folder_history |-> folder_history,
        file_explorer_open |-> file_explorer_open, fs |-> fs,
        PYWHATKIT_AVAILABLE |-> PYWHATKIT_AVAILABLE ]

\* what the speech recogniser may return for one utterance
RecognizedTexts ==
    { "Open YouTube", "search youtube", "search youtube for lofi beats", "go to documents",
      "delete file", "delete file a", "create file", "goodbye", "stop", "send message",
      "open camera", "open whatsapp in chrome", "open chrome", "open youtube music",
      "open folder documents", "go to doc", "open file budget file and tax file",
      "list files", "go to music videos", "go back folder", "look youtube for cats" }

\* the labels of the loaded classifier: labels the router knows and one it does not
Intents ==
    { "youtube_open", "youtube_control", "youtube_search", "file_explorer", "app_open",
      "utility_stop", "smalltalk" }

\* what a follow-up listen() may return
Answers == { None, "lofi beats" }

\* the collaborator calls one invocation of the handler of target t can
\* reach from state st
CallSites(t, st) ==
    CASE t.h = "_search_youtube" -> IF st.PYWHATKIT_AVAILABLE THEN 3 ELSE 2
      [] t.h \in { "_open_youtube", "_open_browser", "_navigate_to_folder", "_create_file" } -> 2
      [] t.h \in { "_show_help", "_list_files_in_folder", "_announce_current_location",
                   "stop", "unresolved", "" } -> 0
      [] t.h \in UndefinedHandlers -> 0
      [] OTHER -> 1

\* the invocation of the handler of target t listens for a follow-up utterance
Listens(t) ==
    \/ t.h = "_search_youtube" /\ TooShort(youtube_search_term(t.arg))
    \/ t.h = "_open_file_enhanced" /\ TooShort(file_name_slot(t.arg))

\* the outcomes one invocation of the handler of target t can meet
Envs(t, st) ==
    [ F : SUBSET (1..CallSites(t, st)), answer : IF Listens(t) THEN Answers ELSE { None } ]

RetOf(ok) == IF ok THEN "True" ELSE "False"

\* FileOperations(): base_path and current_path are the working directory
NewFileOperations ==
    [ base_path |-> Home, current_path |-> Home, fs |-> InitialFs, blank |-> { } ]

\* no call of process_command yet
NoCall == [ text |-> None, result |-> Processed(FALSE, "", 0, << >>, NewFileOperations),
            before |-> NewFileOperations ]

Init ==
    /\ file_ops = NewFileOperations
    /\ cp_call = NoCall
    /\ fo_call = [ op |-> "", arg |-> "", value |-> None, before |-> NewFileOperations ]
    /\ pc = "start"
    /\ is_running = FALSE
    /\ current_path = Home
    /\ current_folder = Home
    /\ folder_history = << >>
    /\ file_explorer_open = FALSE
    /\ fs = InitialFs
    /\ INTENT_MODEL_AVAILABLE \in BOOLEAN
    /\ PYWHATKIT_AVAILABLE \in BOOLEAN
    /\ command = None
    /\ intent = ""
    /\ trace = << >>
    /\ ret = "none"
    /\ start = [ is_running |-> FALSE, current_path |-> Home, current_folder |-> Home,
                 folder_history |-> << >>, file_explorer_open |-> FALSE, fs |-> InitialFs,
                 PYWHATKIT_AVAILABLE |-> PYWHATKIT_AVAILABLE ]

\* the handler's effect on the assistant's state
Becomes(st) ==
    /\ is_running' = st.is_running
    /\ current_path' = st.current_path
    /\ current_folder' = st.current_folder
    /\ folder_history' = st.folder_history
    /\ file_explorer_open' = st.file_explorer_open
    /\ fs' = st.fs

\* run(): up to the first test of the while condition
RunStart ==
    /\ pc = "start"
    /\ is_running' = TRUE
    /\ trace' = <<Speak("BeyondTyping MVP is ready! Say 'help' for available commands.")>>
    /\ pc' = "listen"
    /\ UNCHANGED << current_path, current_folder, folder_history, file_explorer_open, fs,
                    INTENT_MODEL_AVAILABLE, PYWHATKIT_AVAILABLE, command, intent, ret, start,
                    file_ops, cp_call, fo_call >>

\* run(): listen() returns nothing
ListenNothing ==
    /\ pc = "listen"
    /\ trace' = <<Heard(None), Speak("I didn't hear anything. What would you like me to do?")>>
    /\ UNCHANGED << pc, is_running, current_path, current_folder, folder_history,
                    file_explorer_open, fs, INTENT_MODEL_AVAILABLE, PYWHATKIT_AVAILABLE,
                    command, intent, ret, start,
                    file_ops, cp_call, fo_call >>

\* run(): listen() returns the lower-cased text, process_command is entered
ListenCommand ==
    /\ pc = "listen"
    /\ \E text \in RecognizedTexts :
          /\ command' = StrLower(text)
          /\ trace' = <<Heard(StrLower(text))>>
    /\ start' = St
    /\ intent' = ""
    /\ ret' = "none"
    /\ pc' = "classify"
    /\ UNCHANGED << is_running, current_path, current_folder, folder_history,
                    file_explorer_open, fs, INTENT_MODEL_AVAILABLE, PYWHATKIT_AVAILABLE,
                    file_ops, cp_call, fo_call >>

\* process_command: no classifier was loaded
ClassifierAbsent ==
    /\ pc = "classify"
    /\ ~INTENT_MODEL_AVAILABLE
    /\ pc' = "static"
    /\ UNCHANGED << is_running, current_path, current_folder, folder_history,
                    file_explorer_open, fs, INTENT_MODEL_AVAILABLE, PYWHATKIT_AVAILABLE,
                    command, intent, trace, ret, start,
                    file_ops, cp_call, fo_call >>

\* process_command: _get_intent_from_ml returns a label
ClassifierPredicts ==
    /\ pc = "classify"
    /\ INTENT_MODEL_AVAILABLE
    /\ \E i \in Intents : intent' = i
    /\ trace' = trace \o <<Predict(StrLower(command), FALSE)>>
    /\ pc' = "route"
    /\ UNCHANGED << is_running, current_path, current_folder, folder_history,
                    file_explorer_open, fs, INTENT_MODEL_AVAILABLE, PYWHATKIT_AVAILABLE,
                    command, ret, start,
                    file_ops, cp_call, fo_call >>

\* process_command: _get_intent_from_ml raises
ClassifierRaises ==
    /\ pc = "classify"
    /\ INTENT_MODEL_AVAILABLE
    /\ trace' = trace \o <<Predict(StrLower(command), TRUE)>>
    /\ pc' = "static"
    /\ UNCHANGED << is_running, current_path, current_folder, folder_history,
                    file_explorer_open, fs, INTENT_MODEL_AVAILABLE, PYWHATKIT_AVAILABLE,
                    command, intent, ret, start,
                    file_ops, cp_call, fo_call >>

\* process_command: _route_by_intent runs; True is returned at once, False
\* or an exception hands over to the static matcher
Route ==
    /\ pc = "route"
    /\ LET Returned(r) ==
               /\ Len(r.st.folder_history) <= MaxHistory
               /\ Becomes(r.st)
               /\ trace' = trace \o r.ev
               /\ IF r.ok /\ ~r.raised
                  THEN ret' = "True" /\ pc' = "next"
                  ELSE ret' = ret /\ pc' = "static"
           Routed(t) == \E e \in Envs(t, St) : Returned(Invoke(t, St, e))
       IN  Routed(route_by_intent(intent, command))
    /\ UNCHANGED << INTENT_MODEL_AVAILABLE, PYWHATKIT_AVAILABLE, command, intent, start,
                    file_ops, cp_call, fo_call >>

\* process_command: return self._process_command_static(command, command_lower)
StaticMatch ==
    /\ pc = "static"
    /\ LET Returned(r) ==
               /\ Len(r.st.folder_history) <= MaxHistory
               /\ Becomes(r.st)
               /\ trace' = trace \o <<Static(command)>> \o r.ev
               /\ ret' = RetOf(r.ok)
           Matched(t) == \E e \in Envs(t, St) : Returned(Invoke(t, St, e))
       IN  Matched(process_command_static(command, StrLower(command)))
    /\ pc' = "next"
    /\ UNCHANGED << INTENT_MODEL_AVAILABLE, PYWHATKIT_AVAILABLE, command, intent, start,
                    file_ops, cp_call, fo_call >>

\* run(): process_command has returned and the running flag is still set
NextPrompt ==
    /\ pc = "next"
    /\ is_running
    /\ trace' = <<Speak("What would you like me to do next?")>>
    /\ pc' = "listen"
    /\ command' = None
    /\ intent' = ""
    /\ ret' = "none"
    /\ start' = St
    /\ UNCHANGED << is_running, current_path, current_folder, folder_history,
                    file_explorer_open, fs, INTENT_MODEL_AVAILABLE, PYWHATKIT_AVAILABLE,
                    file_ops, cp_call, fo_call >>

\* run(): process_command has returned and cleared the running flag;
\* the while condition fails and run() returns
LoopExit ==
    /\ pc = "next"
    /\ ~is_running
    /\ trace' = << >>
    /\ pc' = "done"
    /\ command' = None
    /\ intent' = ""
    /\ ret' = "none"
    /\ start' = St
    /\ UNCHANGED << is_running, current_path, current_folder, folder_history,
                    file_explorer_open, fs, INTENT_MODEL_AVAILABLE, PYWHATKIT_AVAILABLE,
                    file_ops, cp_call, fo_call >>

\* run(): KeyboardInterrupt inside the loop; run() speaks and returns
Interrupt ==
    /\ pc \in { "listen", "classify", "route", "static", "next" }
    /\ trace' = <<Speak("Goodbye!")>>
    /\ pc' = "done"
    /\ command' = None
    /\ intent' = ""
    /\ ret' = "none"
    /\ start' = St
    /\ UNCHANGED << is_running, current_path, current_folder, folder_history,
                    file_explorer_open, fs, INTENT_MODEL_AVAILABLE, PYWHATKIT_AVAILABLE,
                    file_ops, cp_call, fo_call >>

Next ==
    \/ RunStart
    \/ ListenNothing
    \/ ListenCommand
    \/ ClassifierAbsent
    \/ ClassifierPredicts
    \/ ClassifierRaises
    \/ Route
    \/ StaticMatch
    \/ NextPrompt
    \/ LoopExit
    \/ Interrupt

Spec == Init /\ [][Next]_vars

\* the texts handed to CommandProcessor.process_command
CPTexts ==
    { "", "   ", " Open Documents folder ", "go to documents", "open file notes.txt",
      "open notes.txt", "open file todo", "create file todo", "read file notes.txt",
      "read this file", "save as draft", "read the screen", "list files", "hello there",
      "navigate to desktop" }

\* one call of CommandProcessor.process_command
ProcessCommand ==
    /\ \E text \in CPTexts, e \in CPEnvs :
          LET r == cp_process_command(text, file_ops, e)
          IN  /\ cp_call' = [ text |-> text, result |-> r, before |-> file_ops ]
              /\ file_ops' = r.fo
    /\ UNCHANGED << pc, is_running, current_path, current_folder, folder_history,
                    file_explorer_open, fs, INTENT_MODEL_AVAILABLE, PYWHATKIT_AVAILABLE,
                    command, intent, trace, ret, start, fo_call >>

\* the command processor alone, the assistant not started
InitCP == Init /\ ~INTENT_MODEL_AVAILABLE /\ ~PYWHATKIT_AVAILABLE

SpecCP == InitCP /\ [][ProcessCommand]_vars

\* the paths handed to FileOperations.navigate_to: relative and absolute,
\* existing and missing, a file, and the parent directory
FOPaths ==
    { "Documents", "..", "Documents/../Desktop", "/home/user/Documents", "missing", "map.png" }

\* the file and folder names handed to the other methods
FONames == { "notes.txt" }

\* one call of a method of FileOperations
FileOperationsCall ==
    /\ \E op \in { "navigate_to", "list_directory", "open_file", "create_file", "read_file",
                     "write_file", "save_as", "delete_file", "create_folder", "get_file_info" },
          arg \in FOPaths \cup FONames, e \in CPEnvs :
          LET Called(r) ==
                  /\ Len(r.fo.fs) <= Len(InitialFs) + MaxCreated
                  /\ fo_call' = [ op |-> op, arg |-> arg, value |-> r.value, before |-> file_ops ]
                  /\ file_ops' = r.fo
          IN  /\ op = "navigate_to" <=> arg \in FOPaths
              /\ ~e.raises
              /\ e.screen = ""
              /\ Called(CASE op = "navigate_to" -> fo_navigate_to(arg, file_ops)
                          [] op = "list_directory" -> fo_list_directory(arg, file_ops)
                          [] op = "open_file" -> fo_open_file(arg, file_ops, e)
                          [] op = "create_file" -> fo_create_file(arg, file_ops, e)
                          [] op = "read_file" -> fo_read_file(arg, file_ops, e)
                          [] op = "write_file" -> fo_write_file(arg, "text", file_ops, e)
                          [] op = "save_as" -> fo_save_as(arg, "text", file_ops, e)
                          [] op = "delete_file" -> fo_delete_file(arg, file_ops, e)
                          [] op = "create_folder" -> fo_create_folder(arg, file_ops, e)
                          [] op = "get_file_info" -> fo_get_file_info(arg, file_ops, e))
    /\ UNCHANGED << pc, is_running, current_path, current_folder, folder_history,
                    file_explorer_open, fs, INTENT_MODEL_AVAILABLE, PYWHATKIT_AVAILABLE,
                    command, intent, trace, ret, start, cp_call >>

\* FileOperations alone
SpecFO == InitCP /\ [][FileOperationsCall]_vars


(***************************************************************************)
(* Properties of the command loop.                                         *)
(***************************************************************************)
\* the events of a trace that satisfy P
Count(tr, P(_)) == Len(SelectSeq(tr, P))

\* the event is one of the questions by which a handler asks for a missing slot
IsPrompt(ev) ==
    /\ ev.k = "speak"
    /\ ev.a \in
         { "What would you like me to search for on YouTube?",
           "Which file would you like to open?", "Which website would you like to open?",
           "What would you like to search for?", "Which folder would you like to go to?",
           "Which folder would you like to open?", "Which file would you like to delete?",
           "What would you like me to write?", "Where would you like to save the file?" }

\* the listens of a cycle after the one that heard the command
FollowUps(tr) == SelectSeq(Tail(tr), LAMBDA ev : ev.k = "listen")

\* the intent does not resolve to a handler: an unknown label, or a
\* sub-routed intent whose text holds none of its sub-keywords
Unresolvable(i, c) ==
    \/ i \notin
         { "youtube_open", "youtube_control", "youtube_search", "browser_open", "browser_search",
         "tab_next", "tab_previous", "tab_close", "file_explorer", "file_create", "file_write",
         "file_save", "file_close", "file_open", "file_read", "app_open", "whatsapp_send",
         "whatsapp_download", "screen_reader", "utility_time", "utility_help", "utility_stop",
         "utility_chat", "utility_screenshot", "utility_window", "utility_scroll",
         "system_lock", "system_unlock" }
    \/ i = "youtube_control" /\ ~has_any_keyword(c, << "play", "pause", "next", "previous" >>)
    \/ i = "utility_window" /\ ~has_any_keyword(c, << "minimize", "maximize" >>)
    \/ i = "utility_scroll" /\ ~has_any_keyword(c, << "down", "up" >>)

\* C1: when the classifier is absent, or the predicted intent does not
\* resolve to a handler, the cycle's result, its events and its effect on the
\* assistant are those of the static matcher run on the original utterance
\* from the state the cycle began in.
C1_FallThroughToStatic ==
    (pc = "next" /\ (~INTENT_MODEL_AVAILABLE \/ (intent # "" /\ Unresolvable(intent, command))))
    => LET before == IF INTENT_MODEL_AVAILABLE
                     THEN <<Heard(command), Predict(StrLower(command), FALSE)>>
                     ELSE <<Heard(command)>>
           Returned(r) ==
               /\ ret = RetOf(r.ok)
               /\ St = r.st
               /\ trace = before \o <<Static(command)>> \o r.ev
           Matched(t) == \E e \in Envs(t, start) : Returned(Invoke(t, start, e))
       IN  Matched(process_command_static(command, StrLower(command)))

\* a cycle in which an unknown label was predicted and the static matcher
\* carried out the original utterance
C1_Witness ==
    /\ pc = "next"
    /\ INTENT_MODEL_AVAILABLE
    /\ intent = "smalltalk"
    /\ command = "search youtube for lofi beats"
    /\ ret = "True"

\* C3: within one command cycle at most one clarification prompt is spoken
\* and at most one follow-up utterance is listened for.
C3_OneClarificationPerCycle ==
    pc \in { "classify", "route", "static", "next" }
    => /\ Count(trace, IsPrompt) <= 1
       /\ Len(FollowUps(trace)) <= 1

\* C4: within one command cycle no handler is invoked more than once.
C4_NoHandlerInvokedTwice ==
    pc \in { "classify", "route", "static", "next" }
    => \A i, j \in 1..Len(trace) :
          (i < j /\ trace[i].k = "call" /\ trace[j].k = "call") => trace[i].h # trace[j].h

\* the residual the handler h extracts from the command c
SlotOf(h, c) ==
    CASE h = "_search_youtube" -> youtube_search_term(c)
      [] h = "_open_file_enhanced" -> file_name_slot(c)
      [] h = "_navigate_to_folder" -> folder_slot(c)
      [] h = "_open_folder" -> Residual(c, "open folder")
      [] h = "_delete_file" -> Residual(c, "delete file")
      [] h = "_create_file" -> Residual(c, "create file")
      [] h = "_open_website" -> Residual(c, "open website")
      [] h = "_search_google" -> Residual(c, "search google")

\* event i of the trace is the invocation of a slot handler whose residual
\* is empty or shorter than 2 characters
MissingSlotAt(tr, i) ==
    /\ tr[i].k = "call"
    /\ tr[i].h \in { "_search_youtube", "_open_file_enhanced", "_navigate_to_folder",
                     "_open_folder", "_delete_file", "_create_file", "_open_website",
                     "_search_google" }
    /\ TooShort(SlotOf(tr[i].h, tr[i].a))

\* C5: a handler whose residual is empty or shorter than 2 characters calls
\* no action collaborator before a follow-up utterance has been heard:
\* neither with the residual nor with a default put in its place.
C5_ShortSlotNeverDispatched ==
    \A i \in 1..Len(trace) :
        MissingSlotAt(trace, i)
        => \A j \in (i + 1)..Len(trace) :
              trace[j].k = "act"
              => \E m \in (i + 1)..(j - 1) : trace[m].k \in { "listen", "call" }

\* C6: a handler whose slot is missing speaks a prompt and then listens for
\* a follow-up utterance, in the same cycle.
C6_MissingSlotListens ==
    \A i \in 1..Len(trace) :
        MissingSlotAt(trace, i)
        => /\ i + 2 <= Len(trace)
           /\ IsPrompt(trace[i + 1])
           /\ trace[i + 2].k = "listen"

\* C7: when the follow-up listen of a clarification returns nothing, and
\* when "delete file" names no file, the cycle reports failure, calls no
\* action collaborator, speaks one prompt at most and ends on the generic
\* "didn't catch that" message.
C7_AbandonedClarification ==
    LET Silent(heard) == \E i \in 1..Len(heard) : ~Truthy(heard[i].a)
        LastSpoken(said) == IF said = << >> THEN "" ELSE said[Len(said)].a
    IN  (pc = "next" /\ (Silent(FollowUps(trace)) \/ command = "delete file"))
        => /\ ret = "False"
           /\ Count(trace, LAMBDA ev : ev.k = "act") = 0
           /\ Count(trace, IsPrompt) <= 1
           /\ LastSpoken(SelectSeq(trace, LAMBDA ev : ev.k = "speak"))
                = "Sorry, I didn't catch that. You can say 'help' to know what I can do."

\* the cycle resolved the utterance to the stop intent: the classifier
\* predicted utility_stop, or the static matcher reached its stop branch
StopResolved ==
    \/ intent = "utility_stop"
    \/ /\ \E i \in 1..Len(trace) : trace[i] = Static(command)
       /\ process_command_static(command, StrLower(command)).h = "stop"

\* C9: when the utterance resolves to the stop intent, the running flag is
\* false when process_command returns, and the loop neither listens again
\* nor asks what to do next.
C9_StopEndsLoop ==
    [][ (pc = "next" /\ StopResolved) => (~is_running /\ pc' # "listen") ]_vars

\* the words of s, in a set
RECURSIVE Words(_)
Words(s) ==
    LET Cut(t, sp) == IF t = "" THEN { }
                      ELSE IF sp = 0 THEN { t }
                      ELSE { SubSeq(t, 1, sp - 1) } \cup Words(StrFrom(t, sp + 1))
        Stripped(t) == Cut(t, StrFind(t, " ", 1))
    IN  Stripped(StrStrip(s))

\* the utterance is an explicit stop command: one of its words is a stop word
ExplicitStop(u) == Words(u) \cap { "stop", "shutdown", "exit", "quit", "close", "end", "terminate" } # { }

\* C10: a cycle whose command failed leaves the running flag set, and the
\* running flag is cleared only by an utterance that is an explicit stop
\* command.
C10_OnlyStopEndsLoop ==
    pc = "next" => /\ ret = "False" => is_running
                   /\ ~is_running => ExplicitStop(command)


(***************************************************************************)
(* Properties of CommandProcessor.process_command.                         *)
(***************************************************************************)
\* the patterns, by their place in the table, that match the text somewhere
Matches(text) == { k \in 1..Len(Patterns) : Search(Patterns[k].re, text).found }

\* C2: the outcome of a call is that of the first pattern, in the order of
\* the table, that matches the normalised text anywhere: the scan stops at
\* that pattern, its command alone is executed and decides the result, also
\* when the command fails or raises; when no pattern matches nothing is
\* executed and the text is not understood.
C2_FirstMatchWins ==
    Truthy(cp_call.text)
    => LET res == cp_call.result
           Decided(r) ==
               /\ file_ops = r.fo
               /\ res.success = (r.success /\ ~r.raised)
               /\ res.response = IF r.raised THEN "Error: " \o Err ELSE r.response
           First(text, p, k) ==
               /\ res.evaluated = k
               /\ res.executed = << p.type >>
               /\ \E e \in CPEnvs :
                     Decided(execute_command(p.type, Search(p.re, text).group, cp_call.before, e))
           Scanned(text, matches) ==
               IF matches = { }
               THEN /\ res.executed = << >>
                    /\ res.evaluated = Len(Patterns)
                    /\ ~res.success
                    /\ res.response = "I didn't understand that command. Please try again."
                    /\ file_ops = cp_call.before
               ELSE First(text, Patterns[SetMin(matches)], SetMin(matches))
           Of(text) == Scanned(text, Matches(text))
       IN  Of(StrStrip(StrLower(cp_call.text)))

\* "open file notes.txt" said in Documents: the first matching pattern
\* takes "n" for the file name and its command fails, although the next
\* pattern matches too
C2_Witness ==
    /\ cp_call.text = "open file notes.txt"
    /\ file_ops.current_path = PathJoin(Home, "Documents")
    /\ cp_call.result.response = "Could not open n"
    /\ Cardinality(Matches(StrStrip(StrLower(cp_call.text)))) > 1

\* C8: a text that is empty after trimming gets (False, "No command
\* received") from process_command and no pattern is evaluated; in the main
\* loop a listen that returns nothing reaches neither the classifier nor the
\* static matcher.
C8_EmptyInputIsNoCommand ==
    /\ (cp_call.text # None /\ StrStrip(cp_call.text) = "")
       => /\ ~cp_call.result.success
          /\ cp_call.result.response = "No command received"
          /\ cp_call.result.evaluated = 0
          /\ cp_call.result.executed = << >>
    /\ (pc = "listen" /\ trace # << >> /\ trace[1] = Heard(None))
       => \A i \in 1..Len(trace) : trace[i].k \notin { "predict", "call" }

(***************************************************************************)
(* Properties of the application sub-router and of the static cascade.     *)
(***************************************************************************)
\* C11: when the classifier predicted app_open and the text contains
\* "camera", the cycle invokes the camera handler and does not invoke the
\* browser handler.
C11_CameraHandlerInvoked ==
    (pc \in { "static", "next" } /\ intent = "app_open" /\ StrContains(command, "camera"))
    => /\ \E i \in 1..Len(trace) : trace[i].k = "call" /\ trace[i].h = "_open_camera"
       /\ \A i \in 1..Len(trace) : ~(trace[i].k = "call" /\ trace[i].h = "_open_browser")

\* the handlers _route_by_intent invoked in the cycle: the calls of the trace
\* before the static matcher's
RoutedCalls(tr) ==
    LET Calls(n) == SelectSeq(SubSeq(tr, 1, n - 1), LAMBDA ev : ev.k = "call")
        Handlers(calls) == [i \in 1..Len(calls) |-> calls[i].h]
        Until(statics) == Handlers(Calls(IF statics = { } THEN Len(tr) + 1 ELSE SetMin(statics)))
    IN  Until({ i \in 1..Len(tr) : tr[i].h = "_process_command_static" })

C13_ExceptionsAbsorbed ==
    LET Returned(r, before) ==
            /\ ret = RetOf(r.ok)
            /\ St = r.st
            /\ trace = before \o <<Static(command)>> \o r.ev
        Matched(t, before) ==
            \/ pc = "static" /\ St = start /\ trace = before /\ ret = "none"
            \/ pc = "next" /\ \E e \in Envs(t, start) : Returned(Invoke(t, start, e), before)
        Absorbed(before) == Matched(process_command_static(command, StrLower(command)), before)
    IN  /\ (pc \in { "static", "next" } /\ Len(trace) >= 2 /\ trace[2] = Predict(command, TRUE))
           => Absorbed(<<Heard(command), Predict(command, TRUE)>>)
        /\ (pc \in { "static", "next" } /\ intent # ""
            /\ route_by_intent(intent, command).h \in UndefinedHandlers)
           => Absorbed(<<Heard(command), Predict(command, FALSE)>>)

\* utility_stop on "stop": the call of the missing _stop raised, and the
\* static matcher stopped the assistant
C13_Witness ==
    /\ pc = "next"
    /\ intent = "utility_stop"
    /\ command = "stop"
    /\ trace = <<Heard("stop"), Predict("stop", FALSE), Static("stop"), Speak("Goodbye!")>>
    /\ ~is_running
    /\ ret = "True"

\* the handlers _process_command_static invoked in the cycle: the calls of
\* the trace after the static matcher's
StaticCalls(tr) ==
    LET Handlers(calls) == [i \in 1..Len(calls) |-> calls[i].h]
        After(n) == Handlers(SelectSeq(SubSeq(tr, n + 1, Len(tr)), LAMBDA ev : ev.k = "call"))
        From(statics) == IF statics = { } THEN << >> ELSE After(SetMin(statics))
    IN  From({ i \in 1..Len(tr) : tr[i].h = "_process_command_static" })

\* the condition of the folder-navigation branch of the static cascade
NavigationCondition(c) ==
    /\ has_any_keyword(c, <<"go to", "navigate to", "take me to", "open", "show me", "switch to">>)
    /\ has_any_keyword(c, <<"downloads", "documents", "desktop", "pictures", "music", "videos">>)

\* C14 as stated: an utterance that satisfies the folder-navigation
\* condition is always routed by the static matcher to folder navigation,
\* and to that handler alone.
C14_NavigationAlwaysWins ==
    (pc = "next" /\ NavigationCondition(command)
     /\ \E i \in 1..Len(trace) : trace[i] = Static(command))
    => StaticCalls(trace) = << "_navigate_to_folder" >>

\* C14, amended: the static matcher takes exactly one branch, the first in
\* declaration order whose condition holds: the YouTube, browser and file
\* explorer branches come before folder navigation, and an utterance that
\* satisfies the folder-navigation condition and none of those three is
\* routed to folder navigation, never to a branch declared after it.
C14_FirstBranchWins ==
    LET any(kw) == has_any_keyword(command, kw)
        First(calls) ==
            IF any(<<"open youtube", "launch youtube", "start youtube", "youtube open",
                     "play youtube", "go to youtube", "open yt">>)
            THEN calls = << "_open_youtube" >>
            ELSE IF any(<<"open browser", "open edge", "launch browser", "start browser",
                          "open web browser", "open chrome", "browser open">>)
            THEN calls = << "_open_browser" >>
            ELSE IF any(<<"open file explorer", "open explorer", "file explorer",
                          "show file explorer", "launch file explorer", "open files">>)
            THEN calls = << "_open_file_explorer_navigate" >>
            ELSE IF NavigationCondition(command)
            THEN calls = << "_navigate_to_folder" >>
            ELSE /\ Len(calls) <= 1
                 /\ \A i \in 1..Len(calls) :
                       calls[i] \notin { "_open_file_explorer_navigate", "_navigate_to_folder" }
    IN  (pc = "next" /\ \E i \in 1..Len(trace) : trace[i] = Static(command))
        => First(StaticCalls(trace))

\* "open folder documents" without a classifier: the navigation branch took
\* it, the "open folder" branch declared after it did not
C14_Witness ==
    /\ pc = "next"
    /\ ~INTENT_MODEL_AVAILABLE
    /\ command = "open folder documents"
    /\ StaticCalls(trace) = << "_navigate_to_folder" >>

(***************************************************************************)
(* Properties of slot extraction.                                          *)
(***************************************************************************)
\* C15: for an utterance "search youtube for Q" the query handed to the
\* YouTube search action is exactly Q: the video played is Q, the results
\* page opened is the one for Q.
C15_QueryIsResidual ==
    LET Handed(Q, j) ==
            trace[j].k = "act"
            => trace[j].a \in { Q, "https://www.youtube.com/results?search_query="
                                    \o StrReplace(Q, " ", "+") }
        Searched(i, Q) ==
            \A j \in (i + 1)..Len(trace) :
                (\A m \in (i + 1)..j : trace[m].k # "call") => Handed(Q, j)
    IN  \A i \in 1..Len(trace) :
            (trace[i].k = "call" /\ trace[i].h = "_search_youtube"
             /\ StartsWith(trace[i].a, "search youtube for ") /\ Len(trace[i].a) > 19)
            => Searched(i, StrFrom(trace[i].a, 20))

C17_AliasReachesCanonicalFolder ==
    LET Reached(target) ==
            \E i \in 1..Len(trace) :
                trace[i].k = "act" /\ trace[i].h \in { "os.startfile", "pyautogui.write" }
                /\ trace[i].a = target
    IN  \A p \in { "go to", "navigate to", "take me to", "open", "show me", "switch to" },
           alias \in { "documents", "doc", "downloads", "download", "pictures", "pics",
                       "photos" } :
           (pc = "next" /\ command = p \o " " \o alias
            /\ \E i \in 1..Len(trace) : trace[i] = Static(command))
           => Reached(PathJoin(Home, Lookup(folders, alias)))

\* C18: the file name _open_file_enhanced extracts is the residual obtained
\* by taking the filler phrases in list order and removing, for each, only
\* its first occurrence (at the start, else embedded, else at the end), and
\* then collapsing internal whitespace to single spaces.
C18_FirstOccurrenceResidual ==
    LET phrases == << "open file", "open document", "show file", "launch file",
                      "open the file", "open", "file", "document" >>
        Without(s, old, i) ==
            IF i = 0 THEN s ELSE StrStrip(SubSeq(s, 1, i - 1) \o StrFrom(s, i + Len(old)))
        Round(s, phrase) ==
            IF StartsWith(s, phrase \o " ") THEN Without(s, phrase \o " ", 1)
            ELSE IF StrContains(s, " " \o phrase)
            THEN Without(s, " " \o phrase, StrFind(s, " " \o phrase, 1))
            ELSE s
        Stripped(s) ==
            LET after[k \in 0..Len(phrases)] ==
                    IF k = 0 THEN s ELSE Round(after[k - 1], phrases[k])
            IN  JoinSplit(after[Len(phrases)])
    IN  \A i \in 1..Len(trace) :
            (trace[i].k = "call" /\ trace[i].h = "_open_file_enhanced")
            => file_name_slot(trace[i].a) = Stripped(StrLower(trace[i].a))

\* C19: for the YouTube query, the file name and the folder name, running
\* the extraction again on a residual it produced that contains none of its
\* filler phrases returns the residual unchanged.
C19_ExtractionIdempotent ==
    LET Free(r, phrases) == \A k \in 1..Len(phrases) : ~StrContains(r, phrases[k])
        Query(r) ==
            Free(r, << "search youtube", "search for", "youtube search", "find on youtube",
                       "youtube find", "play on youtube", "play", "find", "show me",
                       "look for", "youtube", "search" >>)
            => youtube_search_term(r) = r
        FileName(r) ==
            Free(r, << "open file", "open document", "show file", "launch file",
                       "open the file", "open", "file", "document" >>)
            => file_name_slot(r) = r
        Folder(r) ==
            Free(r, << "go to", "navigate to", "take me to", "open", "show me", "switch to" >>)
            => folder_slot(r) = r
        Each(u) == /\ Query(youtube_search_term(u))
                   /\ FileName(file_name_slot(u))
                   /\ Folder(folder_slot(u))
    IN  \A i \in 1..Len(trace) :
            /\ (pc = "classify" /\ trace[i].k = "listen") => Each(trace[i].a)
            /\ (trace[i].k = "call" /\ trace[i].h = "_search_youtube")
               => Query(youtube_search_term(trace[i].a))
            /\ (trace[i].k = "call" /\ trace[i].h = "_open_file_enhanced")
               => FileName(file_name_slot(trace[i].a))
            /\ (trace[i].k = "call" /\ trace[i].h = "_navigate_to_folder")
               => Folder(folder_slot(trace[i].a))

\* "search youtube for lofi beats" was handed to _search_youtube: its
\* residual "for lofi beats" holds no filler phrase
C19_Witness ==
    /\ pc = "next"
    /\ command = "search youtube for lofi beats"
    /\ \E i \in 1..Len(trace) : trace[i] = Call("_search_youtube", command)
    /\ youtube_search_term(command) = "for lofi beats"
    /\ youtube_search_term("for lofi beats") = "for lofi beats"

\* C20: a clarification question is awaited at once and by one listen only:
\* the utterance heard next is the answer, taken as the slot value or, when
\* nothing is heard, discarding the question; it is never classified as a
\* command, and no question is left open when process_command returns and
\* the main loop listens again.
C20_ClarificationResolvedInCycle ==
    LET Awaited(i) == i < Len(trace) /\ trace[i + 1].k = "listen"
        Answer(i) ==
            /\ IsPrompt(trace[i - 1])
            /\ \A j \in (i + 1)..Len(trace) :
                  trace[j].k = "predict" \/ trace[j].h = "_process_command_static"
                  => trace[j].a # trace[i].a
    IN  /\ \A i \in 2..Len(trace) : trace[i].k = "listen" => Answer(i)
        /\ \A i \in 1..Len(trace) :
              IsPrompt(trace[i]) => (Awaited(i) \/ (i = Len(trace) /\ pc # "next"))

(***************************************************************************)
(* Properties of failure handling and of the navigation state.             *)
(***************************************************************************)
\* C21: when the classifier route resolves to no handler (no classifier, a
\* raising prediction, a label or text the router has no branch for, or a
\* method the class does not define) and no rule of the static cascade
\* matches, the cycle returns False, speaks the generic not-understood
\* response exactly once, invokes no handler and no collaborator, and leaves
\* the navigation cursor, the folder history and the running flag as they
\* were when the cycle began.
C21_UnresolvedLeavesStateAlone ==
    (/\ pc = "next"
     /\ process_command_static(command, StrLower(command)).h = "unresolved"
     /\ \/ ~INTENT_MODEL_AVAILABLE
        \/ intent = ""
        \/ route_by_intent(intent, command).h \in { "" } \cup UndefinedHandlers)
    => /\ ret = "False"
       /\ Len(SelectSeq(trace, LAMBDA ev :
              ev = Speak("Sorry, I didn't catch that. You can say 'help' to know what I can do.")))
            = 1
       /\ trace[Len(trace)]
            = Speak("Sorry, I didn't catch that. You can say 'help' to know what I can do.")
       /\ \A i \in 1..Len(trace) :
             /\ trace[i].k # "act"
             /\ trace[i].k = "call" => trace[i] = Static(command)
             /\ trace[i].k = "speak" => i = Len(trace)
       /\ current_path = start.current_path
       /\ current_folder = start.current_folder
       /\ folder_history = start.folder_history
       /\ is_running = start.is_running
       /\ St = start

\* a cycle, after a navigation, in which the classifier predicted a label
\* whose method is not defined and the static cascade matched no rule
C21_Witness ==
    /\ pc = "next"
    /\ INTENT_MODEL_AVAILABLE
    /\ intent = "app_open"
    /\ command = "open camera"
    /\ ret = "False"
    /\ current_path # Home

\* C22: for every text and every behaviour of the collaborators,
\* process_command returns a pair of a Boolean and a text; when the matched
\* command's handler or its collaborator raises, the pair is (False,
\* "Error: ...") and file_ops is as the call found it.
C22_AlwaysReturnsPair ==
    cp_call.text # None
    => LET IsPair(r) == r.success \in BOOLEAN /\ r.response \in STRING
           Absorbed(r, out) ==
               /\ IsPair(r)
               /\ out.raised => /\ ~r.success
                                /\ r.response = "Error: " \o Err
                                /\ r.fo = cp_call.before
           Met(text, matches, e) ==
               IF matches = { } \/ ~Truthy(cp_call.text)
               THEN IsPair(cp_process_command(cp_call.text, cp_call.before, e))
               ELSE Absorbed(cp_process_command(cp_call.text, cp_call.before, e),
                             execute_command(Patterns[SetMin(matches)].type,
                                             Search(Patterns[SetMin(matches)].re, text).group,
                                             cp_call.before, e))
           Of(text) == \A e \in CPEnvs : Met(text, Matches(text), e)
       IN  /\ IsPair(cp_call.result)
           /\ DOMAIN cp_call.result = { "success", "response", "evaluated", "executed", "fo" }
           /\ Of(StrStrip(StrLower(cp_call.text)))

\* a call in which the screen reader raised and the caller was told so
C22_Witness ==
    /\ cp_call.text = "read the screen"
    /\ ~cp_call.result.success
    /\ cp_call.result.response = "Error: " \o Err
    /\ cp_call.result.executed = << "read_screen" >>

\* C23: _list_files_in_folder classifies every item of the current folder
\* exactly once: the announcement names each directory as a folder and each
\* other item as a file, so the two counts add up to the number of items.
C23_EveryItemClassifiedOnce ==
    (/\ pc = "next"
     /\ \E i \in 1..Len(trace) : trace[i] = Call("_list_files_in_folder", "")
     /\ IsDir(start.fs, start.current_folder)
     /\ ListDir(start.fs, start.current_folder) # << >>)
    => LET Listed(entries, noun) ==
               ToString(Len(entries)) \o " " \o noun \o (IF Len(entries) > 1 THEN "s" ELSE "")
               \o ": "
               \o (IF Len(entries) <= 5 THEN JoinNames(entries, ", ")
                   ELSE JoinNames(SubSeq(entries, 1, 5), ", ") \o " and "
                        \o ToString(Len(entries) - 5) \o " more")
           Announced(dirs, others, pictures) ==
               "In " \o Basename(start.current_folder) \o ": "
               \o (IF dirs # << >> THEN Listed(dirs, "folder") ELSE "")
               \o (IF dirs # << >> /\ others # << >> THEN ". " ELSE "")
               \o (IF others # << >> THEN Listed(others, "file") ELSE "")
               \o (IF pictures # << >>
                   THEN ". " \o ToString(Len(pictures)) \o " picture"
                        \o (IF Len(pictures) > 1 THEN "s" ELSE "") \o " found"
                   ELSE "")
           Of(items) ==
               Announced(SelectSeq(items, LAMBDA en : en.isdir),
                         SelectSeq(items, LAMBDA en : ~en.isdir),
                         SelectSeq(items, LAMBDA en : ~en.isdir /\ IsPicture(en.name)))
       IN  trace[Len(trace)] = Speak(Of(ListDir(start.fs, start.current_folder)))

\* C24: when the navigation handlers a cycle called (_navigate_to_folder with
\* the _change_directory it reaches, _go_back_folder) all returned failure,
\* current_path, current_folder and folder_history are as they were when
\* the cycle began, also when the failure is an exception raised by
\* os.startfile.
C24_FailedNavigationKeepsState ==
    (/\ pc = "next"
     /\ ret = "False"
     /\ \E i \in 1..Len(trace) : trace[i].k = "call" /\ trace[i] # Static(command)
     /\ \A i \in 1..Len(trace) :
           (trace[i].k = "call" /\ trace[i] # Static(command))
           => trace[i].h \in { "_navigate_to_folder", "_go_back_folder" })
    => /\ current_path = start.current_path
       /\ current_folder = start.current_folder
       /\ folder_history = start.folder_history

\* C25: after a cycle in which a navigation succeeded and changed the
\* current folder (to a common folder or to a found folder), a "go back"
\* that succeeds from the state the cycle left makes the current folder the
\* one that was current before the navigation.
C25_GoBackUndoesNavigation ==
    (/\ pc = "next"
     /\ ret = "True"
     /\ \E i \in 1..Len(trace) : trace[i].k = "call" /\ trace[i].h = "_navigate_to_folder"
     /\ current_folder # start.current_folder)
    => \A e \in Envs(Target("_go_back_folder", "go back folder"), St) :
          LET Back(r) == r.ok => /\ r.st.current_folder = start.current_folder
                                 /\ r.st.current_path = start.current_path
          IN  Back(go_back_folder(St, e))

\* C26: in every reachable state the two copies of the navigation cursor
\* agree: current_folder is the string form of current_path (a path's string
\* form has no empty and no "." component and no trailing separator).
C26_CursorCopiesAgree ==
    LET Rooted(p, joined) == IF isabs(p) THEN "/" \o joined
                             ELSE IF joined = "" THEN "." ELSE joined
        PathStr(p) ==
            Rooted(p, JoinStr(SelectSeq(SplitPath(p), LAMBDA c : c # "" /\ c # "."), "/"))
    IN  /\ current_folder = PathStr(current_path)
        /\ start.current_folder = PathStr(start.current_path)
        /\ \A i \in 1..Len(folder_history) : folder_history[i] = PathStr(folder_history[i])

\* a go-back has just returned the cursor from a found folder to the home
\* folder
C26_Witness ==
    /\ pc = "next"
    /\ command = "go back folder"
    /\ ret = "True"
    /\ start.current_folder = PathJoin(PathJoin(Home, "Downloads"), "music videos")
    /\ current_folder = Home
    /\ folder_history = << >>

(***************************************************************************)
(* Properties of FileOperations.                                           *)
(***************************************************************************)
\* C27: current_path of FileOperations changes only through a navigate_to
\* call that returns True, and is then the normalised target path, which was
\* an existing directory; a navigate_to call that returns False and every
\* other method leave current_path unchanged, and no call changes base_path.
C27_OnlyNavigateMovesCursor ==
    fo_call.op # ""
    => LET before == fo_call.before
           target == normpath(IF isabs(fo_call.arg) THEN fo_call.arg
                              ELSE os_path_join(before.current_path, fo_call.arg))
       IN  /\ file_ops.base_path = before.base_path
           /\ IF fo_call.op = "navigate_to" /\ fo_call.value = TRUE
              THEN /\ file_ops.current_path = target
                   /\ IsDir(before.fs, target)
              ELSE file_ops.current_path = before.current_path
           /\ fo_call.op = "navigate_to" => file_ops.fs = before.fs

\* a navigate_to with a relative path through "..", and the cursor on the
\* normalised path
C27_Witness ==
    /\ fo_call.op = "navigate_to"
    /\ fo_call.arg = "Documents/../Desktop"
    /\ fo_call.value = TRUE
    /\ fo_call.before.current_path = Home
    /\ file_ops.current_path = PathJoin(Home, "Desktop")

\* C28: after any sequence of navigate_to calls, with relative or absolute
\* arguments including "..", current_path is base_path or a directory below
\* base_path.
C28_CursorStaysUnderBase ==
    \/ file_ops.current_path = file_ops.base_path
    \/ StartsWith(file_ops.current_path, file_ops.base_path \o "/")

(***************************************************************************)
(* Properties of the slots of CommandProcessor.                            *)
(***************************************************************************)
\* C29: for a text that is a command phrase followed by an argument X, the
\* slot handed to the handler (the group of the first matching pattern) is
\* the whole of X; "go to documents" navigates to the mapped path of
\* "documents" unless the collaborator raises.
C29_SlotIsWholeArgument ==
    Truthy(cp_call.text)
    => LET phrases == << "go to", "navigate to", "open file", "create file", "new folder",
                         "save as" >>
           Handed(text, matches, k) ==
               /\ matches # { }
               /\ Search(Patterns[SetMin(matches)].re, text).group
                    = StrFrom(text, Len(phrases[k]) + 2)
           Of(text) ==
               /\ \A k \in 1..Len(phrases) :
                     StartsWith(text, phrases[k] \o " ") => Handed(text, Matches(text), k)
               /\ (text = "go to documents" /\ cp_call.result.response # "Error: " \o Err)
                  => /\ cp_call.result.success
                     /\ file_ops.current_path = PathJoin(Home, "Documents")
       IN  Of(StrStrip(StrLower(cp_call.text)))

(***************************************************************************)
(* Properties of one pass of slot extraction.                              *)
(***************************************************************************)
\* C30: for every utterance, the residual of one pass of an extractor
\* (YouTube query, file name, folder name) contains none of that extractor's
\* filler phrases, and a second pass returns it unchanged.
C30_OnePassLeavesNoFiller ==
    LET Free(r, phrases) == \A k \in 1..Len(phrases) : ~StrContains(r, phrases[k])
        Query(r) ==
            /\ Free(r, << "search youtube", "search for", "youtube search", "find on youtube",
                          "youtube find", "play on youtube", "play", "find", "show me",
                          "look for", "youtube", "search" >>)
            /\ youtube_search_term(r) = r
        FileName(r) ==
            /\ Free(r, << "open file", "open document", "show file", "launch file",
                          "open the file", "open", "file", "document" >>)
            /\ file_name_slot(r) = r
        Folder(r) ==
            /\ Free(r, << "go to", "navigate to", "take me to", "open", "show me",
                          "switch to" >>)
            /\ folder_slot(r) = r
    IN  (pc = "classify" /\ trace # << >> /\ trace[1].k = "listen")
        => /\ Query(youtube_search_term(trace[1].a))
           /\ FileName(file_name_slot(trace[1].a))
           /\ Folder(folder_slot(trace[1].a))


=============================================================================
